---- MODULE Spec2Model ----
(***************************************************************************)
(* Model of the natural-language command core of hmr: the tokenizer, the   *)
(* action table, the tiered fuzzy matcher (src/src/fuzzy.rs), the parser    *)
(* NLParser::parse and the service-call builder                             *)
(* ParsedCommand::to_service_call (src/src/nl.rs).                          *)
(*                                                                          *)
(* A Rust String is a sequence of one-character strings, so that trimming,  *)
(* lower-casing, prefix tests and edit distance are computed, not assumed.  *)
(* Option<T> is the value None or a value of T.                             *)
(***************************************************************************)
EXTENDS Integers, Sequences, FiniteSets, TLC

VARIABLES
    cache,      \* the registry snapshot (Cache): entities, areas, services
    skim,       \* the score the external skim scorer gives a subsequence match
    input,      \* the text handed to parse / find_entity
    cmd,        \* Result<ParsedCommand> of parse, or a command built by a caller
    call,       \* Result<ServiceCall> of to_service_call
    found,      \* MatchResult of the last find_entity / _area / _service / _domain call
    lev,        \* the two texts handed to levenshtein, and the distance returned
    toks,       \* the Vec<&str> returned by tokenize
    pc          \* "start" | "parsed" | "called" | "measured" | "tokenized" | "found" |
                \* "found_area" | "found_service" | "found_domain"

vars == <<cache, skim, input, cmd, call, found, lev, toks, pc>>

\* Option<T>: None is the empty tuple, Some(x) the one-element tuple
None == <<>>
Some(x) == <<x>>
IsSome(o) == o # <<>>

\* ------------------------------------------------------------------------
\* Characters and strings
\* ------------------------------------------------------------------------

LowerLetters ==
    {"a","b","c","d","e","f","g","h","i","j","k","l","m",
     "n","o","p","q","r","s","t","u","v","w","x","y","z"}

UpperLetters ==
    {"A","B","C","D","E","F","G","H","I","J","K","L","M",
     "N","O","P","Q","R","S","T","U","V","W","X","Y","Z"}

Digits == {"0","1","2","3","4","5","6","7","8","9"}

LowerOf ==
    [c \in UpperLetters |->
        CASE c = "A" -> "a" [] c = "B" -> "b" [] c = "C" -> "c" [] c = "D" -> "d"
          [] c = "E" -> "e" [] c = "F" -> "f" [] c = "G" -> "g" [] c = "H" -> "h"
          [] c = "I" -> "i" [] c = "J" -> "j" [] c = "K" -> "k" [] c = "L" -> "l"
          [] c = "M" -> "m" [] c = "N" -> "n" [] c = "O" -> "o" [] c = "P" -> "p"
          [] c = "Q" -> "q" [] c = "R" -> "r" [] c = "S" -> "s" [] c = "T" -> "t"
          [] c = "U" -> "u" [] c = "V" -> "v" [] c = "W" -> "w" [] c = "X" -> "x"
          [] c = "Y" -> "y" [] c = "Z" -> "z"]

\* char::to_lowercase
LowerChar(c) == IF c \in UpperLetters THEN LowerOf[c] ELSE c

\* str::to_lowercase
to_lowercase(s) == [i \in 1..Len(s) |-> LowerChar(s[i])]

\* char::is_whitespace
is_whitespace(c) == c = " "

\* char::is_alphanumeric
is_alphanumeric(c) == c \in LowerLetters \cup UpperLetters \cup Digits

\* The characters in ASCII order, for the order of str (Ord for str is bytewise)
AsciiOrder ==
    <<" ","!","%","+",",","-",".",
      "0","1","2","3","4","5","6","7","8","9","=","?",
      "A","B","C","D","E","F","G","H","I","J","K","L","M",
      "N","O","P","Q","R","S","T","U","V","W","X","Y","Z","_",
      "a","b","c","d","e","f","g","h","i","j","k","l","m",
      "n","o","p","q","r","s","t","u","v","w","x","y","z">>

CharCode(c) == CHOOSE i \in 1..Len(AsciiOrder) : AsciiOrder[i] = c

\* a < b in the lexicographic order of str
RECURSIVE StrLess(_, _)
StrLess(a, b) ==
    IF b = <<>> THEN FALSE
    ELSE IF a = <<>> THEN TRUE
    ELSE IF a[1] = b[1] THEN StrLess(Tail(a), Tail(b))
    ELSE CharCode(a[1]) < CharCode(b[1])

\* str::starts_with
starts_with(s, p) == Len(p) <= Len(s) /\ SubSeq(s, 1, Len(p)) = p

\* str::ends_with
ends_with(s, p) == Len(p) <= Len(s) /\ SubSeq(s, Len(s) - Len(p) + 1, Len(s)) = p

\* [&str]::join(sep)
RECURSIVE join(_, _)
join(parts, sep) ==
    IF parts = <<>> THEN <<>>
    ELSE IF Len(parts) = 1 THEN parts[1]
    ELSE parts[1] \o sep \o join(Tail(parts), sep)

\* Iterator::take(n)
take(s, n) == SubSeq(s, 1, IF Len(s) < n THEN Len(s) ELSE n)

Range(s) == {s[i] : i \in 1..Len(s)}

\* ------------------------------------------------------------------------
\* Tokenizer (nl.rs)
\* ------------------------------------------------------------------------

StopWords ==
    { <<"t","h","e">>, <<"a">>, <<"a","n">>, <<"t","o">>, <<"i","n">>,
      <<"a","t">>, <<"f","o","r">>, <<"a","n","d">>, <<"m","y">>,
      <<"p","l","e","a","s","e">> }

\* is_stop_word without the to_lowercase: the fault C4 is tested against
is_stop_word_cased(word) == word \in StopWords

is_stop_word(word) == to_lowercase(word) \in StopWords

\* the character classes used as patterns: "sep" is the separator test of
\* tokenize's split, "punct" what its trim_matches removes, "ws" whitespace,
\* "pct" the percent sign
Matches(class, c) ==
    CASE class = "sep" -> is_whitespace(c) \/ c = ","
      [] class = "punct" -> ~is_alphanumeric(c) /\ c # "%" /\ c # "_" /\ c # "."
      [] class = "ws" -> is_whitespace(c)
      [] class = "pct" -> c = "%"
      [] class = "dot" -> c = "."

\* str::split(pred): the pieces between separators, empty pieces included
RECURSIVE split(_, _, _)
split(s, class, piece) ==
    IF s = <<>> THEN <<piece>>
    ELSE IF Matches(class, s[1]) THEN <<piece>> \o split(Tail(s), class, <<>>)
    ELSE split(Tail(s), class, Append(piece, s[1]))

RECURSIVE trim_start_matches(_, _)
trim_start_matches(s, class) ==
    IF s # <<>> /\ Matches(class, s[1]) THEN trim_start_matches(Tail(s), class) ELSE s

RECURSIVE trim_end_matches(_, _)
trim_end_matches(s, class) ==
    IF s # <<>> /\ Matches(class, s[Len(s)])
    THEN trim_end_matches(SubSeq(s, 1, Len(s) - 1), class) ELSE s

trim_matches(s, class) == trim_end_matches(trim_start_matches(s, class), class)

\* str::trim
trim(s) == trim_matches(s, "ws")

NonEmpty(p) == p # <<>>
NotStopWord(p) == ~is_stop_word(p)

\* tokenize without the trim_matches step: the fault C5 is tested against
tokenize_untrimmed(s) ==
    SelectSeq(SelectSeq(split(s, "sep", <<>>), NonEmpty), NotStopWord)

\* tokenize with the stop-word filter ahead of the trim_matches step
tokenize_filter_first(s) ==
    LET pieces == SelectSeq(split(s, "sep", <<>>), NotStopWord)
        trimmed == [i \in 1..Len(pieces) |-> trim_matches(pieces[i], "punct")]
    IN  SelectSeq(trimmed, NonEmpty)

tokenize(s) ==
    LET pieces == split(s, "sep", <<>>)
        trimmed == [i \in 1..Len(pieces) |-> trim_matches(pieces[i], "punct")]
    IN  SelectSeq(SelectSeq(trimmed, NonEmpty), NotStopWord)

\* ------------------------------------------------------------------------
\* Numbers (nl.rs)
\* ------------------------------------------------------------------------

DigitVal(c) ==
    CASE c = "0" -> 0 [] c = "1" -> 1 [] c = "2" -> 2 [] c = "3" -> 3 [] c = "4" -> 4
      [] c = "5" -> 5 [] c = "6" -> 6 [] c = "7" -> 7 [] c = "8" -> 8 [] c = "9" -> 9

RECURSIVE DigitsVal(_, _)
DigitsVal(s, acc) ==
    IF s = <<>> THEN acc ELSE DigitsVal(Tail(s), acc * 10 + DigitVal(s[1]))

AllDigits(s) == s # <<>> /\ \A i \in 1..Len(s) : s[i] \in Digits

\* str::parse::<i64>: an optional sign, then at least one decimal digit
parse_i64(s) ==
    IF AllDigits(s) THEN Some(DigitsVal(s, 0))
    ELSE IF s # <<>> /\ s[1] = "+" /\ AllDigits(Tail(s)) THEN Some(DigitsVal(Tail(s), 0))
    ELSE IF s # <<>> /\ s[1] = "-" /\ AllDigits(Tail(s)) THEN Some(0 - DigitsVal(Tail(s), 0))
    ELSE None

parse_number(s) == parse_i64(s)

parse_percentage(s) ==
    LET num == parse_i64(trim_end_matches(s, "pct"))
    IN  IF IsSome(num) /\ num[1] >= 0 /\ num[1] <= 100 THEN num ELSE None

\* ------------------------------------------------------------------------
\* Action vocabulary table (nl.rs)
\* ------------------------------------------------------------------------

\* action_mappings(): trigger_words, default_service, domain_overrides (a map,
\* here the set of its <<domain, service>> entries) and infers_domain
action_mappings ==
    << [trigger_words |-> <<<<"o","n">>, <<"t","u","r","n","_","o","n">>, <<"e","n","a","b","l","e">>, <<"a","c","t","i","v","a","t","e">>, <<"s","t","a","r","t">>>>,
        default_service |-> <<"t","u","r","n","_","o","n">>, domain_overrides |-> {}, infers_domain |-> TRUE],
       [trigger_words |-> <<<<"o","f","f">>, <<"t","u","r","n","_","o","f","f">>, <<"d","i","s","a","b","l","e">>, <<"d","e","a","c","t","i","v","a","t","e">>, <<"s","t","o","p">>, <<"k","i","l","l">>>>,
        default_service |-> <<"t","u","r","n","_","o","f","f">>, domain_overrides |-> {}, infers_domain |-> TRUE],
       [trigger_words |-> <<<<"t","o","g","g","l","e">>, <<"s","w","i","t","c","h">>, <<"f","l","i","p">>>>,
        default_service |-> <<"t","o","g","g","l","e">>, domain_overrides |-> {}, infers_domain |-> TRUE],
       [trigger_words |-> <<<<"o","p","e","n">>, <<"u","n","l","o","c","k">>>>,
        default_service |-> <<"o","p","e","n","_","c","o","v","e","r">>,
        domain_overrides |-> { <<<<"c","o","v","e","r">>, <<"o","p","e","n","_","c","o","v","e","r">>>>, <<<<"l","o","c","k">>, <<"u","n","l","o","c","k">>>>,
                               <<<<"v","a","l","v","e">>, <<"o","p","e","n","_","v","a","l","v","e">>>> },
        infers_domain |-> TRUE],
       [trigger_words |-> <<<<"c","l","o","s","e">>, <<"s","h","u","t">>, <<"l","o","c","k">>>>,
        default_service |-> <<"c","l","o","s","e","_","c","o","v","e","r">>,
        domain_overrides |-> { <<<<"c","o","v","e","r">>, <<"c","l","o","s","e","_","c","o","v","e","r">>>>, <<<<"l","o","c","k">>, <<"l","o","c","k">>>>,
                               <<<<"v","a","l","v","e">>, <<"c","l","o","s","e","_","v","a","l","v","e">>>> },
        infers_domain |-> TRUE],
       [trigger_words |-> <<<<"d","i","m">>, <<"l","o","w","e","r">>, <<"d","e","c","r","e","a","s","e">>, <<"r","e","d","u","c","e">>>>,
        default_service |-> <<"t","u","r","n","_","o","n">>, domain_overrides |-> {}, infers_domain |-> FALSE],
       [trigger_words |-> <<<<"b","r","i","g","h","t","e","n">>, <<"r","a","i","s","e">>, <<"i","n","c","r","e","a","s","e">>, <<"b","r","i","g","h","t","e","r">>>>,
        default_service |-> <<"t","u","r","n","_","o","n">>, domain_overrides |-> {}, infers_domain |-> FALSE],
       [trigger_words |-> <<<<"s","e","t">>>>,
        default_service |-> <<"t","u","r","n","_","o","n">>, domain_overrides |-> {}, infers_domain |-> TRUE],
       [trigger_words |-> <<<<"v","o","l","u","m","e","_","u","p">>, <<"l","o","u","d","e","r">>, <<"v","o","l","u","m","e"," ","u","p">>>>,
        default_service |-> <<"v","o","l","u","m","e","_","u","p">>,
        domain_overrides |-> { <<<<"m","e","d","i","a","_","p","l","a","y","e","r">>, <<"v","o","l","u","m","e","_","u","p">>>> }, infers_domain |-> FALSE],
       [trigger_words |-> <<<<"v","o","l","u","m","e","_","d","o","w","n">>, <<"q","u","i","e","t","e","r">>, <<"s","o","f","t","e","r">>, <<"v","o","l","u","m","e"," ","d","o","w","n">>>>,
        default_service |-> <<"v","o","l","u","m","e","_","d","o","w","n">>,
        domain_overrides |-> { <<<<"m","e","d","i","a","_","p","l","a","y","e","r">>, <<"v","o","l","u","m","e","_","d","o","w","n">>>> }, infers_domain |-> FALSE],
       [trigger_words |-> <<<<"v","o","l","u","m","e","_","s","e","t">>, <<"v","o","l","u","m","e">>>>,
        default_service |-> <<"v","o","l","u","m","e","_","s","e","t">>,
        domain_overrides |-> { <<<<"m","e","d","i","a","_","p","l","a","y","e","r">>, <<"v","o","l","u","m","e","_","s","e","t">>>> }, infers_domain |-> FALSE],
       [trigger_words |-> <<<<"m","u","t","e">>, <<"s","i","l","e","n","c","e">>>>,
        default_service |-> <<"v","o","l","u","m","e","_","m","u","t","e">>,
        domain_overrides |-> { <<<<"m","e","d","i","a","_","p","l","a","y","e","r">>, <<"v","o","l","u","m","e","_","m","u","t","e">>>> }, infers_domain |-> FALSE],
       [trigger_words |-> <<<<"u","n","m","u","t","e">>>>,
        default_service |-> <<"v","o","l","u","m","e","_","m","u","t","e">>,
        domain_overrides |-> { <<<<"m","e","d","i","a","_","p","l","a","y","e","r">>, <<"v","o","l","u","m","e","_","m","u","t","e">>>> }, infers_domain |-> FALSE] >>

\* service_for_domain that never looks at the overrides
service_for_domain_default(mapping, domain) == mapping.default_service

\* ActionMapping::service_for_domain
service_for_domain(mapping, domain) ==
    IF \E kv \in mapping.domain_overrides : kv[1] = domain
    THEN (CHOOSE kv \in mapping.domain_overrides : kv[1] = domain)[2]
    ELSE mapping.default_service

\* the least index of s that satisfies the test, as Option<usize> (Iterator::find
\* and the early return of a for loop); the tests are given as sets of indices
FirstIn(idx) == IF idx = {} THEN None ELSE Some(CHOOSE i \in idx : \A j \in idx : i <= j)

\* the table lookup comparing the token as typed
find_action_with_mapping_cased(token) ==
    LET hit == FirstIn({m \in 1..Len(action_mappings) :
                    token \in Range(action_mappings[m].trigger_words)})
    IN  IF IsSome(hit) THEN Some(<<action_mappings[hit[1]].default_service, hit[1]>>)
        ELSE None

\* NLParser::find_action_with_mapping: Some(<<action, index of the mapping>>)
find_action_with_mapping(token) ==
    LET token_lower == to_lowercase(token)
        hit == FirstIn({m \in 1..Len(action_mappings) :
                    token_lower \in Range(action_mappings[m].trigger_words)})
    IN  IF IsSome(hit) THEN Some(<<action_mappings[hit[1]].default_service, hit[1]>>)
        ELSE None

\* NLParser::find_action
find_action(token) ==
    LET r == find_action_with_mapping(token) IN IF IsSome(r) THEN Some(r[1][1]) ELSE None

\* ------------------------------------------------------------------------
\* Registry (cache.rs)
\* ------------------------------------------------------------------------

\* str::replace(' ', "_")
replace_space(s) == [i \in 1..Len(s) |-> IF s[i] = " " THEN "_" ELSE s[i]]

\* impl From<&EntityState> for CachedEntity
CachedEntity(entity_id, friendly_name, area_id) ==
    LET parts == split(entity_id, "dot", <<>>)
        domain == IF Len(parts) = 2 THEN parts[1] ELSE <<>>
        object_id == IF Len(parts) = 2 THEN parts[2] ELSE entity_id
    IN  [entity_id |-> entity_id,
         domain |-> domain,
         object_id |-> object_id,
         friendly_name |-> friendly_name,
         area_id |-> area_id,
         search_names |->
            <<entity_id, object_id>> \o
            (IF IsSome(friendly_name)
             THEN <<friendly_name[1], to_lowercase(friendly_name[1]),
                    replace_space(to_lowercase(friendly_name[1]))>>
             ELSE <<>>)]

RECURSIVE AliasNames(_)
AliasNames(aliases) ==
    IF aliases = <<>> THEN <<>>
    ELSE <<aliases[1], to_lowercase(aliases[1])>> \o AliasNames(Tail(aliases))

\* impl From<&Area> for CachedArea
CachedArea(area_id, name, aliases) ==
    [area_id |-> area_id,
     name |-> name,
     aliases |-> aliases,
     search_names |->
        <<area_id, name, to_lowercase(name), replace_space(to_lowercase(name))>>
        \o AliasNames(aliases)]

\* CachedService as CacheManager::refresh_services builds it
CachedService(domain, service) ==
    [domain |-> domain, service |-> service, full_name |-> domain \o <<".">> \o service]

\* Cache::entities_in_domain, as the indices of the entities
entities_in_domain(c, domain) ==
    SelectSeq([i \in 1..Len(c.entities) |-> i], LAMBDA i : c.entities[i].domain = domain)

\* Vec<&str>::sort of distinct strings: insert x into a sorted list
RECURSIVE SortedInsert(_, _)
SortedInsert(sorted, x) ==
    IF sorted = <<>> THEN <<x>>
    ELSE IF x = sorted[1] THEN sorted
    ELSE IF StrLess(x, sorted[1]) THEN <<x>> \o sorted
    ELSE <<sorted[1]>> \o SortedInsert(Tail(sorted), x)

RECURSIVE SortDedup(_)
SortDedup(s) == IF s = <<>> THEN <<>> ELSE SortedInsert(SortDedup(Tail(s)), s[1])

\* Cache::domains: the distinct entity domains, sorted
domains(c) == SortDedup([i \in 1..Len(c.entities) |-> c.entities[i].domain])

\* Cache::services_for_domain: the service names of a domain, in registry order
services_for_domain(c, domain) ==
    LET idx == SelectSeq([i \in 1..Len(c.services) |-> i],
                         LAMBDA i : c.services[i].domain = domain)
    IN  [k \in 1..Len(idx) |-> c.services[idx[k]].service]

\* ------------------------------------------------------------------------
\* Match, MatchType, MatchResult (fuzzy.rs)
\* ------------------------------------------------------------------------

MAX_EDIT_DISTANCE == 2
MIN_FUZZY_SCORE == 50

\* An f64 confidence is the exact ratio <<numerator, denominator>>
Ratio(n, d) == <<n, d>>
RLeq(a, b) == a[1] * b[2] <= b[1] * a[2]
RLess(a, b) == a[1] * b[2] < b[1] * a[2]
REq(a, b) == a[1] * b[2] = b[1] * a[2]

Exact == [tag |-> "Exact", distance |-> 0]
Prefix == [tag |-> "Prefix", distance |-> 0]
Fuzzy == [tag |-> "Fuzzy", distance |-> 0]
Typo(distance) == [tag |-> "Typo", distance |-> distance]

\* Match::exact
MatchExact(item, inp, matched_on) ==
    [item |-> item, confidence |-> Ratio(100, 100), match_type |-> Exact,
     matched_input |-> inp, matched_on |-> matched_on]

\* Match::prefix
MatchPrefix(item, inp, matched_on) ==
    [item |-> item, confidence |-> Ratio(90, 100), match_type |-> Prefix,
     matched_input |-> inp, matched_on |-> matched_on]

\* Match::fuzzy without the .min(0.85)
MatchFuzzy_uncapped(item, inp, matched_on, score, max_score) ==
    [item |-> item,
     confidence |-> IF max_score > 0 THEN Ratio(score, max_score) ELSE Ratio(50, 100),
     match_type |-> Fuzzy, matched_input |-> inp, matched_on |-> matched_on]

\* Match::fuzzy
MatchFuzzy(item, inp, matched_on, score, max_score) ==
    [item |-> item,
     confidence |-> IF max_score > 0
                    THEN (IF RLeq(Ratio(score, max_score), Ratio(85, 100))
                          THEN Ratio(score, max_score) ELSE Ratio(85, 100))
                    ELSE Ratio(50, 100),
     match_type |-> Fuzzy, matched_input |-> inp, matched_on |-> matched_on]

\* Match::typo
MatchTypo(item, inp, matched_on, distance) ==
    [item |-> item,
     confidence |-> CASE distance = 1 -> Ratio(80, 100)
                      [] distance = 2 -> Ratio(60, 100)
                      [] OTHER -> Ratio(40, 100),
     match_type |-> Typo(distance), matched_input |-> inp, matched_on |-> matched_on]

\* MatchType::priority
priority(match_type) ==
    CASE match_type.tag = "Exact" -> 0
      [] match_type.tag = "Prefix" -> 1
      [] match_type.tag = "Typo" /\ match_type.distance = 1 -> 2
      [] match_type.tag = "Typo" /\ match_type.distance = 2 -> 3
      [] match_type.tag = "Fuzzy" -> 4
      [] OTHER -> 5

Single(m) == [kind |-> "Single", matches |-> <<m>>]
Multiple(ms) == [kind |-> "Multiple", matches |-> ms]
NoMatch == [kind |-> "None", matches |-> <<>>]

\* the tail of every tier: one match is Single, several are Multiple
SingleOrMultiple(ms) == IF Len(ms) = 1 THEN Single(ms[1]) ELSE Multiple(ms)

\* Vec::sort_by (stable) on descending confidence
RECURSIVE InsertByConfidence(_, _)
InsertByConfidence(sorted, m) ==
    IF sorted = <<>> THEN <<m>>
    ELSE IF RLess(sorted[1].confidence, m.confidence) THEN <<m>> \o sorted
    ELSE <<sorted[1]>> \o InsertByConfidence(Tail(sorted), m)

RECURSIVE SortByConfidenceFrom(_, _)
SortByConfidenceFrom(ms, acc) ==
    IF ms = <<>> THEN acc
    ELSE SortByConfidenceFrom(Tail(ms), InsertByConfidence(acc, ms[1]))

\* the typo matches left in registry order
SortByConfidence_unsorted(ms) == ms

SortByConfidence(ms) == SortByConfidenceFrom(ms, <<>>)

\* Vec::sort_by (stable) on match type priority, then descending confidence
RECURSIVE InsertByPriority(_, _)
InsertByPriority(sorted, m) ==
    IF sorted = <<>> THEN <<m>>
    ELSE IF \/ priority(m.match_type) < priority(sorted[1].match_type)
            \/ /\ priority(m.match_type) = priority(sorted[1].match_type)
               /\ RLess(sorted[1].confidence, m.confidence)
         THEN <<m>> \o sorted
    ELSE <<sorted[1]>> \o InsertByPriority(Tail(sorted), m)

RECURSIVE SortByPriorityFrom(_, _)
SortByPriorityFrom(ms, acc) ==
    IF ms = <<>> THEN acc
    ELSE SortByPriorityFrom(Tail(ms), InsertByPriority(acc, ms[1]))

SortByPriority(ms) == SortByPriorityFrom(ms, <<>>)

\* MatchResult::best
best(result) ==
    IF result.kind = "Single" THEN Some(result.matches[1])
    ELSE IF result.kind = "Multiple" /\ result.matches # <<>>
    THEN (IF Len(result.matches) >= 2
          THEN Some(SortByConfidence(result.matches)[1])
          ELSE Some(result.matches[1]))
    ELSE None

\* ------------------------------------------------------------------------
\* Edit distance (fuzzy.rs)
\* ------------------------------------------------------------------------

Min2(x, y) == IF x <= y THEN x ELSE y

\* the inner loop of levenshtein: curr holds curr_row[0..=j], next is column j+1
RECURSIVE LevFillRow(_, _, _, _)
LevFillRow(curr, prev, a_char, b) ==
    IF Len(curr) = Len(b) + 1 THEN curr
    ELSE LET j == Len(curr)
             cost == IF a_char = b[j] THEN 0 ELSE 1
         IN  LevFillRow(
                Append(curr, Min2(Min2(prev[j + 1] + 1, curr[j] + 1), prev[j] + cost)),
                prev, a_char, b)

\* the outer loop of levenshtein: prev_row is the row of the table reached so
\* far, whose first cell (curr_row[0] = i + 1) counts the characters of a done
RECURSIVE LevRows(_, _, _)
LevRows(a, b, prev_row) ==
    LET i == prev_row[1] + 1
    IN  IF i > Len(a) THEN prev_row[Len(b) + 1]
        ELSE LevRows(a, b, LevFillRow(<<i>>, prev_row, a[i], b))

AbsDiff(x, y) == IF x >= y THEN x - y ELSE y - x

\* levenshtein that always fills the table
levenshtein_full_table(a, b) ==
    IF Len(a) = 0 THEN Len(b)
    ELSE IF Len(b) = 0 THEN Len(a)
    ELSE LevRows(a, b, [j \in 1..(Len(b) + 1) |-> j - 1])

levenshtein(a, b) ==
    IF Len(a) = 0 THEN Len(b)
    ELSE IF Len(b) = 0 THEN Len(a)
    ELSE IF AbsDiff(Len(a), Len(b)) > MAX_EDIT_DISTANCE THEN MAX_EDIT_DISTANCE + 1
    ELSE LevRows(a, b, [j \in 1..(Len(b) + 1) |-> j - 1])

\* to_singular
to_singular(word) ==
    IF ends_with(word, <<"i","e","s">>) /\ Len(word) > 3
    THEN SubSeq(word, 1, Len(word) - 3) \o <<"y">>
    ELSE IF ends_with(word, <<"e","s">>) /\ Len(word) > 2
    THEN SubSeq(word, 1, Len(word) - 2)
    ELSE IF ends_with(word, <<"s">>) /\ Len(word) > 1
    THEN SubSeq(word, 1, Len(word) - 1)
    ELSE word

\* ------------------------------------------------------------------------
\* The external skim scorer (SkimMatcherV2::fuzzy_match)
\* ------------------------------------------------------------------------

RECURSIVE IsSubsequence(_, _)
IsSubsequence(p, s) ==
    IF p = <<>> THEN TRUE
    ELSE IF s = <<>> THEN FALSE
    ELSE IF p[1] = s[1] THEN IsSubsequence(Tail(p), Tail(s))
    ELSE IsSubsequence(p, Tail(s))

\* fuzzy_match(choice, pattern): None unless the (lower-case) pattern is a
\* subsequence of the choice, letter case ignored; the score of a match is the
\* library's, here skim points for each pattern character
fuzzy_match(choice, pattern) ==
    IF IsSubsequence(pattern, to_lowercase(choice))
    THEN Some(skim * Len(pattern))
    ELSE None

\* concatenation of a sequence of sequences: the Some values of a list of Options
RECURSIVE Concat(_)
Concat(ss) == IF ss = <<>> THEN <<>> ELSE ss[1] \o Concat(Tail(ss))

\* ------------------------------------------------------------------------
\* FuzzyMatcher (fuzzy.rs).  A matched item is the index of the entity, area
\* or service in the registry's list (the reference into the cache).
\* ------------------------------------------------------------------------

Indices(s) == [i \in 1..Len(s) |-> i]

\* the first pass comparing the object id with the input as typed: the fault
\* C10 is tested against
EntityExactOn_as_typed(entity, inp, input_lower) ==
    IF entity.entity_id = inp \/ entity.entity_id = input_lower
    THEN Some(entity.entity_id)
    ELSE IF entity.object_id = inp THEN Some(entity.object_id)
    ELSE IF IsSome(entity.friendly_name)
            /\ to_lowercase(entity.friendly_name[1]) = input_lower
    THEN Some(entity.friendly_name[1])
    ELSE None

\* first pass of find_entity for one entity: what it matched on, if anything
EntityExactOn(entity, inp, input_lower) ==
    IF entity.entity_id = inp \/ entity.entity_id = input_lower
    THEN Some(entity.entity_id)
    ELSE IF entity.object_id = input_lower THEN Some(entity.object_id)
    ELSE IF IsSome(entity.friendly_name)
            /\ to_lowercase(entity.friendly_name[1]) = input_lower
    THEN Some(entity.friendly_name[1])
    ELSE None

\* second pass that leaves the loop after the first search name
PrefixOn_first_name(search_names, input_lower) ==
    IF search_names # <<>> /\ starts_with(to_lowercase(search_names[1]), input_lower)
    THEN Some(search_names[1])
    ELSE None

\* second pass for one item: the first search name the input is a prefix of
PrefixOn(search_names, input_lower) ==
    LET hit == FirstIn({k \in 1..Len(search_names) :
                    starts_with(to_lowercase(search_names[k]), input_lower)})
    IN  IF IsSome(hit) THEN Some(search_names[hit[1]]) ELSE None

\* third pass for one item: the first search name within the edit distance
TypoOn(search_names, input_lower) ==
    LET ok(k) == LET distance == levenshtein(input_lower, to_lowercase(search_names[k]))
                 IN  distance <= MAX_EDIT_DISTANCE /\ distance > 0
        hit == FirstIn({k \in 1..Len(search_names) : ok(k)})
    IN  IF IsSome(hit)
        THEN Some(<<search_names[hit[1]],
                    levenshtein(input_lower, to_lowercase(search_names[hit[1]]))>>)
        ELSE None

\* fourth pass of find_entity for one entity: <<best_score, best_name>>
RECURSIVE BestFuzzy(_, _, _, _)
BestFuzzy(search_names, input_lower, best_score, best_name) ==
    IF search_names = <<>> THEN <<best_score, best_name>>
    ELSE LET score == fuzzy_match(search_names[1], input_lower)
         IN  IF IsSome(score) /\ score[1] > best_score /\ score[1] >= MIN_FUZZY_SCORE
             THEN BestFuzzy(Tail(search_names), input_lower, score[1], search_names[1])
             ELSE BestFuzzy(Tail(search_names), input_lower, best_score, best_name)

\* FuzzyMatcher::find_entity
find_entity(inp, c) ==
    LET input_lower == to_lowercase(inp)
        entities == c.entities
        n == Len(entities)
        exact == FirstIn({i \in 1..n : IsSome(EntityExactOn(entities[i], inp, input_lower))})
        prefix_matches ==
            Concat([i \in 1..n |->
                LET on == PrefixOn(entities[i].search_names, input_lower)
                IN  IF IsSome(on) THEN <<MatchPrefix(i, inp, on[1])>> ELSE <<>>])
        typo_matches ==
            Concat([i \in 1..n |->
                LET on == TypoOn(entities[i].search_names, input_lower)
                IN  IF IsSome(on) THEN <<MatchTypo(i, inp, on[1][1], on[1][2])>> ELSE <<>>])
        max_possible_score == Len(inp) * 16
        fuzzy_matches ==
            Concat([i \in 1..n |->
                LET b == BestFuzzy(entities[i].search_names, input_lower, 0, <<>>)
                IN  IF b[1] >= MIN_FUZZY_SCORE
                    THEN <<MatchFuzzy(i, inp, b[2], b[1], max_possible_score)>>
                    ELSE <<>>])
    IN  IF IsSome(exact)
        THEN Single(MatchExact(exact[1], inp,
                               EntityExactOn(entities[exact[1]], inp, input_lower)[1]))
        ELSE IF prefix_matches # <<>> THEN SingleOrMultiple(prefix_matches)
        ELSE IF Len(typo_matches) = 1 THEN Single(typo_matches[1])
        ELSE IF typo_matches # <<>> THEN Multiple(SortByConfidence(typo_matches))
        ELSE IF fuzzy_matches = <<>> THEN NoMatch
        ELSE SingleOrMultiple(SortByPriority(fuzzy_matches))

\* first pass of find_area without the loop over the user's aliases
AreaExactOn_names_only(area, input_lower) ==
    IF area.area_id = input_lower \/ to_lowercase(area.name) = input_lower
    THEN Some(area.name)
    ELSE None

\* first pass of find_area for one area
AreaExactOn(area, input_lower) ==
    IF area.area_id = input_lower \/ to_lowercase(area.name) = input_lower
    THEN Some(area.name)
    ELSE LET hit == FirstIn({k \in 1..Len(area.aliases) :
                        to_lowercase(area.aliases[k]) = input_lower})
         IN  IF IsSome(hit) THEN Some(area.aliases[hit[1]]) ELSE None

\* fourth pass of find_area for one area: the first search name scoring enough
AreaFuzzyOn(search_names, input_lower) ==
    LET ok(k) == LET score == fuzzy_match(search_names[k], input_lower)
                 IN  IsSome(score) /\ score[1] >= MIN_FUZZY_SCORE
        hit == FirstIn({k \in 1..Len(search_names) : ok(k)})
    IN  IF IsSome(hit)
        THEN Some(<<search_names[hit[1]], fuzzy_match(search_names[hit[1]], input_lower)[1]>>)
        ELSE None

\* FuzzyMatcher::find_area
find_area(inp, c) ==
    LET input_lower == to_lowercase(inp)
        areas == c.areas
        n == Len(areas)
        exact == FirstIn({i \in 1..n : IsSome(AreaExactOn(areas[i], input_lower))})
        prefix_matches ==
            Concat([i \in 1..n |->
                LET on == PrefixOn(areas[i].search_names, input_lower)
                IN  IF IsSome(on) THEN <<MatchPrefix(i, inp, on[1])>> ELSE <<>>])
        typo_matches ==
            Concat([i \in 1..n |->
                LET on == TypoOn(areas[i].search_names, input_lower)
                IN  IF IsSome(on) THEN <<MatchTypo(i, inp, on[1][1], on[1][2])>> ELSE <<>>])
        max_score == Len(inp) * 16
        fuzzy_matches ==
            Concat([i \in 1..n |->
                LET on == AreaFuzzyOn(areas[i].search_names, input_lower)
                IN  IF IsSome(on)
                    THEN <<MatchFuzzy(i, inp, on[1][1], on[1][2], max_score)>>
                    ELSE <<>>])
    IN  IF IsSome(exact)
        THEN Single(MatchExact(exact[1], inp, AreaExactOn(areas[exact[1]], input_lower)[1]))
        ELSE IF prefix_matches # <<>> THEN SingleOrMultiple(prefix_matches)
        ELSE IF typo_matches # <<>> THEN SingleOrMultiple(SortByConfidence(typo_matches))
        ELSE IF fuzzy_matches = <<>> THEN NoMatch
        ELSE SingleOrMultiple(SortByConfidence(fuzzy_matches))

\* str::contains(char)
contains_char(s, ch) == \E i \in 1..Len(s) : s[i] = ch

\* str::splitn(2, '.'): the text before the first dot and the rest
splitn2(s) ==
    LET dot == FirstIn({i \in 1..Len(s) : s[i] = "."})
    IN  IF IsSome(dot)
        THEN <<SubSeq(s, 1, dot[1] - 1), SubSeq(s, dot[1] + 1, Len(s))>>
        ELSE <<s>>

\* FuzzyMatcher::find_service
find_service(inp, c) ==
    LET input_lower == to_lowercase(inp)
        services == c.services
        n == Len(services)
        parts == splitn2(inp)
        domain_filter == IF contains_char(inp, ".") THEN Some(to_lowercase(parts[1])) ELSE None
        service_part == IF contains_char(inp, ".") THEN Some(to_lowercase(parts[2]))
                        ELSE Some(input_lower)
        isExact(i) ==
            \/ to_lowercase(services[i].full_name) = input_lower
            \/ /\ IsSome(service_part)
               /\ to_lowercase(services[i].service) = service_part[1]
               /\ \/ domain_filter = None
                  \/ domain_filter = Some(to_lowercase(services[i].domain))
        exact == FirstIn({i \in 1..n : isExact(i)})
        prefix_matches ==
            Concat([i \in 1..n |->
                IF starts_with(to_lowercase(services[i].full_name), input_lower)
                THEN <<MatchPrefix(i, inp, services[i].full_name)>> ELSE <<>>])
        typo_matches ==
            Concat([i \in 1..n |->
                LET distance == levenshtein(input_lower, to_lowercase(services[i].full_name))
                IN  IF distance <= MAX_EDIT_DISTANCE /\ distance > 0
                    THEN <<MatchTypo(i, inp, services[i].full_name, distance)>> ELSE <<>>])
        max_score == Len(inp) * 16
        fuzzy_matches ==
            Concat([i \in 1..n |->
                LET score == fuzzy_match(services[i].full_name, input_lower)
                IN  IF IsSome(score) /\ score[1] >= MIN_FUZZY_SCORE
                    THEN <<MatchFuzzy(i, inp, services[i].full_name, score[1], max_score)>>
                    ELSE <<>>])
    IN  IF IsSome(exact) THEN Single(MatchExact(exact[1], inp, services[exact[1]].full_name))
        ELSE IF prefix_matches # <<>> THEN SingleOrMultiple(prefix_matches)
        ELSE IF typo_matches # <<>> THEN SingleOrMultiple(SortByConfidence(typo_matches))
        ELSE IF fuzzy_matches = <<>> THEN NoMatch
        ELSE SingleOrMultiple(SortByConfidence(fuzzy_matches))

\* FuzzyMatcher::find_domain; the matched item is the domain string
find_domain(inp, c) ==
    LET input_lower == to_lowercase(inp)
        doms == domains(c)
        n == Len(doms)
        singular == to_singular(input_lower)
        exact == FirstIn({i \in 1..n : doms[i] = input_lower \/ doms[i] = singular})
        prefix_matches ==
            Concat([i \in 1..n |->
                IF starts_with(doms[i], input_lower) \/ starts_with(doms[i], singular)
                THEN <<MatchPrefix(doms[i], inp, doms[i])>> ELSE <<>>])
        typo_matches ==
            Concat([i \in 1..n |->
                LET distance == levenshtein(input_lower, doms[i])
                IN  IF distance <= MAX_EDIT_DISTANCE /\ distance > 0
                    THEN <<MatchTypo(doms[i], inp, doms[i], distance)>> ELSE <<>>])
    IN  IF IsSome(exact) THEN Single(MatchExact(doms[exact[1]], inp, doms[exact[1]]))
        ELSE IF prefix_matches # <<>> THEN SingleOrMultiple(prefix_matches)
        ELSE IF typo_matches # <<>> THEN SingleOrMultiple(SortByConfidence(typo_matches))
        ELSE NoMatch

\* FuzzyMatcher::find_entities_in_domain, as entity indices
find_entities_in_domain(domain, c) ==
    LET domain_lower == to_lowercase(domain)
        singular == to_singular(domain_lower)
        entities == entities_in_domain(c, domain_lower)
    IN  IF entities = <<>> /\ domain_lower # singular
        THEN entities_in_domain(c, singular)
        ELSE entities

\* FuzzyMatcher::find_entities_in_area, as entity indices: the entities of the
\* area that matched, if one did
EntitiesOfArea(area_match, c) ==
    IF IsSome(area_match)
    THEN SelectSeq(Indices(c.entities),
            LAMBDA i : c.entities[i].area_id = Some(c.areas[area_match[1].item].area_id))
    ELSE <<>>

find_entities_in_area(area_input, c) ==
    EntitiesOfArea(best(find_area(area_input, c)), c)

\* ------------------------------------------------------------------------
\* ParsedCommand and NLParser (nl.rs)
\* ------------------------------------------------------------------------

Ok(v) == [ok |-> TRUE, v |-> v]
Err(e) == [ok |-> FALSE, v |-> e]

\* i64 Display
RECURSIVE NatToString(_)
NatToString(n) ==
    LET d == <<"0","1","2","3","4","5","6","7","8","9">>[(n % 10) + 1]
    IN  IF n < 10 THEN <<d>> ELSE Append(NatToString(n \div 10), d)

to_string(n) == IF n < 0 THEN <<"-">> \o NatToString(0 - n) ELSE NatToString(n)

\* str::contains(&str)
contains(s, sub) ==
    \E i \in 1..(Len(s) - Len(sub) + 1) : SubSeq(s, i, i + Len(sub) - 1) = sub

\* HashMap::insert and serde_json::Map::insert
insert(map, key, value) == (key :> value) @@ map

\* serde_json::Value: an integer number, a float (an exact ratio) or a string
I64(n) == <<"i64", n>>
F64(n, d) == <<"f64", n, d>>
Str(s) == <<"str", s>>

\* Value::as_i64
as_i64(v) == IF v[1] = "i64" THEN Some(v[2]) ELSE None

\* Display of a serde_json::Value that parse stored (always an integer)
value_to_string(v) == to_string(v[2])

\* a note of ParsedCommand.notes: its text, with the domain and count it formats
Note(text, domain, count) == [text |-> text, domain |-> domain, count |-> count]

\* format!("{:?}", match_type): the derived Debug text of a MatchType
debug_format(match_type) ==
    IF match_type.tag = "Typo"
    THEN "Typo { distance: " \o ToString(match_type.distance) \o " }"
    ELSE match_type.tag

\* impl From<Match<&CachedEntity>> for ParsedTarget
ParsedTargetFrom(m, c) ==
    [entity_id |-> c.entities[m.item].entity_id,
     friendly_name |-> c.entities[m.item].friendly_name,
     match_type |-> debug_format(m.match_type),
     matched_input |-> m.matched_input]

\* the ParsedTarget of the area and domain fallbacks
FallbackTarget(i, c, kind, matched_input) ==
    [entity_id |-> c.entities[i].entity_id,
     friendly_name |-> c.entities[i].friendly_name,
     match_type |-> kind,
     matched_input |-> matched_input]

\* the min_confidence test parse applies to a Single match
ClearsFloor(m) ==
    CASE m.match_type.tag \in {"Exact", "Prefix"} -> RLeq(Ratio(0, 100), m.confidence)
      [] m.match_type.tag = "Typo" -> RLeq(Ratio(60, 100), m.confidence)
      [] m.match_type.tag = "Fuzzy" -> RLeq(Ratio(65, 100), m.confidence)

\* the confidence with the target share granted to an empty target list too
calculate_confidence_zero_counts(result) ==
    LET n == Len(result.targets)
        l == IF n = 0 THEN 1 ELSE n
    IN  Ratio(l * ((IF IsSome(result.action) THEN 3 ELSE 0)
                   + (IF DOMAIN result.parameters # {} THEN 2 ELSE 0)
                   + (IF result.notes = <<>> THEN 1 ELSE 0))
              + 4,
              10 * l)

\* NLParser::calculate_confidence
calculate_confidence(result) ==
    LET n == Len(result.targets)
        l == IF n = 0 THEN 1 ELSE n
    IN  Ratio(l * ((IF IsSome(result.action) THEN 3 ELSE 0)
                   + (IF DOMAIN result.parameters # {} THEN 2 ELSE 0)
                   + (IF result.notes = <<>> THEN 1 ELSE 0))
              + (IF n > 0 THEN 4 ELSE 0),
              10 * l)

\* NLParser::build_interpretation; order is the order in which the HashMap
\* iterator yields the keys of result.parameters
build_interpretation(result, domain_hint, order) ==
    LET names == [i \in 1..Len(result.targets) |->
                    IF IsSome(result.targets[i].friendly_name)
                    THEN result.targets[i].friendly_name[1]
                    ELSE result.targets[i].entity_id]
        parts ==
            (IF IsSome(result.action) THEN <<result.action[1]>> ELSE <<>>)
            \o (IF result.targets # <<>> THEN <<join(names, <<","," ">>)>>
                ELSE IF IsSome(domain_hint) THEN <<<<"a","l","l"," ">> \o domain_hint[1] \o <<"s">>>>
                ELSE <<>>)
            \o [k \in 1..Len(order) |->
                    order[k] \o <<"=">> \o value_to_string(result.parameters[order[k]])]
    IN  join(parts, <<" ">>)

\* the action scan of parse (the first for loop), from token i on; st holds
\* result.action, action_mapping, action_found, skip_next, non_action_tokens
RECURSIVE ActionScan(_, _, _)
ActionScan(tokens, i, st) ==
    IF i > Len(tokens) THEN st
    ELSE IF st.skip_next THEN ActionScan(tokens, i + 1, [st EXCEPT !.skip_next = FALSE])
    ELSE
    LET token == tokens[i]
        hasNext == i + 1 <= Len(tokens)
        next_lower == to_lowercase(tokens[i + 1])
        act == find_action_with_mapping(token)
        compound(name) ==
            [st EXCEPT !.action = Some(name),
                       !.action_mapping =
                            FirstIn({m \in 1..Len(action_mappings) :
                                name \in Range(action_mappings[m].trigger_words)}),
                       !.action_found = TRUE,
                       !.skip_next = TRUE]
    IN  IF to_lowercase(token) = <<"t","u","r","n">> /\ hasNext
           /\ IsSome(find_action_with_mapping(tokens[i + 1]))
        THEN ActionScan(tokens, i + 1, st)
        ELSE IF to_lowercase(token) = <<"v","o","l","u","m","e">> /\ hasNext
                /\ next_lower = <<"u","p">> /\ ~st.action_found
        THEN ActionScan(tokens, i + 1, compound(<<"v","o","l","u","m","e","_","u","p">>))
        ELSE IF to_lowercase(token) = <<"v","o","l","u","m","e">> /\ hasNext
                /\ next_lower = <<"d","o","w","n">> /\ ~st.action_found
        THEN ActionScan(tokens, i + 1, compound(<<"v","o","l","u","m","e","_","d","o","w","n">>))
        ELSE IF IsSome(act) /\ ~st.action_found
        THEN ActionScan(tokens, i + 1,
                [st EXCEPT !.action = Some(act[1][1]),
                           !.action_mapping = Some(act[1][2]),
                           !.action_found = TRUE])
        ELSE ActionScan(tokens, i + 1,
                [st EXCEPT !.non_action_tokens = Append(@, token)])

\* the parameter loop of the combined-entity pass (nl.rs 351-362)
RECURSIVE CombinedParameters(_, _, _)
CombinedParameters(tokens, is_volume_action, parameters) ==
    IF tokens = <<>> THEN parameters
    ELSE LET num == parse_number(tokens[1])
             pct == parse_percentage(tokens[1])
         IN  CombinedParameters(Tail(tokens), is_volume_action,
                IF IsSome(num) THEN insert(parameters, <<"v","a","l","u","e">>, I64(num[1]))
                ELSE IF IsSome(pct)
                THEN insert(parameters,
                            IF is_volume_action THEN <<"v","o","l","u","m","e","_","p","c","t">> ELSE <<"b","r","i","g","h","t","n","e","s","s","_","p","c","t">>,
                            I64(pct[1]))
                ELSE parameters)

\* the last two arms of the classification loop: the token is a domain, an
\* area, or stays among the remaining tokens
Hinted(st, token, dom, area, c) ==
    IF dom.kind = "Single"
    THEN [st EXCEPT !.domain_hint = Some(dom.matches[1].item)]
    ELSE IF area.kind = "Single"
    THEN [st EXCEPT !.area_hint = Some(c.areas[area.matches[1].item].area_id)]
    ELSE [st EXCEPT !.remaining_tokens = Append(@, token)]

\* the classification loop of parse (nl.rs 375-410); st holds the parameters,
\* domain_hint, area_hint (= matched_area) and remaining_tokens
RECURSIVE Classify(_, _, _, _)
Classify(tokens, is_volume_action, c, st) ==
    IF tokens = <<>> THEN st
    ELSE LET token == tokens[1]
             num == parse_number(token)
             pct == parse_percentage(token)
         IN  Classify(Tail(tokens), is_volume_action, c,
                IF IsSome(num)
                THEN [st EXCEPT !.parameters = insert(@, <<"v","a","l","u","e">>, I64(num[1]))]
                ELSE IF IsSome(pct)
                THEN [st EXCEPT !.parameters =
                        insert(@, IF is_volume_action THEN <<"v","o","l","u","m","e","_","p","c","t">>
                                  ELSE <<"b","r","i","g","h","t","n","e","s","s","_","p","c","t">>, I64(pct[1]))]
                ELSE Hinted(st, token, find_domain(token, c), find_area(token, c), c))

\* the target of the first combination whose match is Single and confident
FirstAccepted(results, c) ==
    LET hit == FirstIn({k \in 1..Len(results) :
                    results[k].kind = "Single" /\ ClearsFloor(results[k].matches[1])})
    IN  IF IsSome(hit)
        THEN <<ParsedTargetFrom(results[hit[1]].matches[1], c)>>
        ELSE <<>>

\* the area combinations of parse (nl.rs 414-438): the targets they yield
AreaCombination(remaining_tokens, area_hint, c) ==
    IF remaining_tokens # <<>> /\ IsSome(area_hint)
    THEN LET remaining_str == join(remaining_tokens, <<" ">>)
             combinations == << remaining_str \o <<" ">> \o area_hint[1],
                                remaining_str \o <<"_">> \o area_hint[1],
                                remaining_str \o <<".">> \o area_hint[1] >>
         IN  FirstAccepted([k \in 1..3 |-> find_entity(combinations[k], c)], c)
    ELSE <<>>

\* the per-token fallback accepting every Single match
Confident_any(r, c) ==
    IF r.kind = "Single"
    THEN <<ParsedTargetFrom(r.matches[1], c)>>
    ELSE <<>>

\* the target of one token's match, when it is Single and above 0.7
Confident(r, c) ==
    IF r.kind = "Single" /\ RLess(Ratio(70, 100), r.matches[1].confidence)
    THEN <<ParsedTargetFrom(r.matches[1], c)>>
    ELSE <<>>

\* the per-token fallback of parse (nl.rs 489-495)
RECURSIVE TokenTargets(_, _)
TokenTargets(tokens, c) ==
    IF tokens = <<>> THEN <<>>
    ELSE Confident(find_entity(tokens[1], c), c) \o TokenTargets(Tail(tokens), c)

\* the match arms of the residual-string step (nl.rs 444-488), given the match
\* r of the whole string; the None arm is left to the caller
Resolved(r, domain_hint, c) ==
    LET filtered == IF IsSome(domain_hint)
                    THEN SelectSeq(r.matches,
                            LAMBDA m : c.entities[m.item].domain = domain_hint[1])
                    ELSE r.matches
        confident == SelectSeq(take(filtered, 5),
                        LAMBDA m : RLeq(Ratio(50, 100), m.confidence))
        several == [k \in 1..Len(confident) |-> ParsedTargetFrom(confident[k], c)]
    IN  IF r.kind = "Single"
        THEN << IF ClearsFloor(r.matches[1])
                THEN <<ParsedTargetFrom(r.matches[1], c)>> ELSE <<>>,
                <<>> >>
        ELSE IF Len(filtered) = 1
        THEN << IF ClearsFloor(filtered[1])
                THEN <<ParsedTargetFrom(filtered[1], c)>> ELSE <<>>,
                <<>> >>
        ELSE IF filtered # <<>>
        THEN << several,
                IF several # <<>>
                THEN <<Note("Multiple matches found", <<>>, 0)>> ELSE <<>> >>
        ELSE << <<>>, <<>> >>

\* the targets of the residual-string step, given the match r
ResidualOf(r, remaining_tokens, domain_hint, c) ==
    IF r.kind = "None"
    THEN << TokenTargets(remaining_tokens, c), <<>> >>
    ELSE Resolved(r, domain_hint, c)

\* the residual-string step of parse (nl.rs 441-499): <<targets, notes>>
ResidualTargets(remaining_tokens, domain_hint, c) ==
    IF join(remaining_tokens, <<" ">>) = <<>> THEN << <<>>, <<>> >>
    ELSE ResidualOf(find_entity(join(remaining_tokens, <<" ">>), c),
                    remaining_tokens, domain_hint, c)

\* the orders in which a HashMap with the given keys may be iterated
RECURSIVE Orders(_)
Orders(keys) ==
    IF keys = {} THEN { <<>> }
    ELSE UNION { { <<k>> \o rest : rest \in Orders(keys \ {k}) } : k \in keys }

\* the parameter loop of parse_service_based (nl.rs 717-734)
RECURSIVE ServiceParameters(_, _)
ServiceParameters(ts, parameters) ==
    IF ts = <<>> THEN parameters
    ELSE ServiceParameters(Tail(ts),
            IF IsSome(parse_percentage(ts[1]))
            THEN insert(parameters, <<"b","r","i","g","h","t","n","e","s","s","_","p","c","t">>, I64(parse_percentage(ts[1])[1]))
            ELSE IF IsSome(parse_number(ts[1]))
            THEN insert(parameters, <<"v","a","l","u","e">>, I64(parse_number(ts[1])[1]))
            ELSE parameters)

\* the tokens after the service that are no parameter (nl.rs 717-734)
ServiceTargetTokens(tokens) ==
    SelectSeq(SubSeq(tokens, 4, Len(tokens)),
        LAMBDA t : parse_percentage(t) = None /\ parse_number(t) = None)

\* the ParsedCommand of parse_service_based keeping five targets at most, as
\* the Multiple arm does
ServiceCommand_take5(inp, tokens, domain, action, targets, notes) ==
    Ok([original |-> inp,
        action |-> Some(action),
        targets |-> take(targets, 5),
        parameters |-> ServiceParameters(SubSeq(tokens, 4, Len(tokens)), <<>>),
        confidence |-> Ratio(8, 10),
        interpretation |->
            domain \o <<".">> \o action \o <<" ","o","n"," ">>
            \o (IF targets = <<>> THEN <<"a","l","l"," ","e","n","t","i","t","i","e","s">>
                ELSE to_string(Len(targets)) \o <<" ","e","n","t","i","t","i","e","s">>),
        notes |-> notes,
        matched_area |-> None])

\* the ParsedCommand of parse_service_based (nl.rs 703-714, 795-806)
ServiceCommand(inp, tokens, domain, action, targets, notes) ==
    Ok([original |-> inp,
        action |-> Some(action),
        targets |-> targets,
        parameters |-> ServiceParameters(SubSeq(tokens, 4, Len(tokens)), <<>>),
        confidence |-> Ratio(8, 10),
        interpretation |->
            domain \o <<".">> \o action \o <<" ","o","n"," ">>
            \o (IF targets = <<>> THEN <<"a","l","l"," ","e","n","t","i","t","i","e","s">>
                ELSE to_string(Len(targets)) \o <<" ","e","n","t","i","t","i","e","s">>),
        notes |-> notes,
        matched_area |-> None])

\* the targets of parse_service_based with a None arm that targets nothing
ServiceTargets_unmatched_empty(inp, tokens, domain, action, in_domain, r, c) ==
    LET remaining_tokens == ServiceTargetTokens(tokens)
        domain_targets == [k \in 1..Len(in_domain) |->
                            FallbackTarget(in_domain[k], c, "domain_match", domain)]
        filtered == SelectSeq(r.matches, LAMBDA m : c.entities[m.item].domain = domain)
    IN  ServiceCommand(inp, tokens, domain, action,
            IF remaining_tokens = <<>> THEN domain_targets
            ELSE IF r.kind = "Single" THEN <<ParsedTargetFrom(r.matches[1], c)>>
            ELSE IF r.kind = "Multiple"
            THEN [k \in 1..Len(take(filtered, IF Len(filtered) = 1 THEN 1 ELSE 5)) |->
                    ParsedTargetFrom(filtered[k], c)]
            ELSE <<>>,
            IF remaining_tokens = <<>> THEN <<>>
            ELSE IF r.kind = "Single" THEN <<>>
            ELSE IF r.kind = "Multiple"
            THEN (IF Len(filtered) = 1 THEN <<>>
                  ELSE IF filtered # <<>>
                  THEN <<Note("Multiple matches found", <<>>, 0)>>
                  ELSE <<Note("No entities found in specified domain", <<>>, 0)>>)
            ELSE <<Note("No entities found", <<>>, 0)>>)

\* the targets and notes of parse_service_based (nl.rs 736-793), given the
\* entities of the domain and the match r of the remaining tokens
ServiceTargets(inp, tokens, domain, action, in_domain, r, c) ==
    LET remaining_tokens == ServiceTargetTokens(tokens)
        domain_targets == [k \in 1..Len(in_domain) |->
                            FallbackTarget(in_domain[k], c, "domain_match", domain)]
        filtered == SelectSeq(r.matches, LAMBDA m : c.entities[m.item].domain = domain)
    IN  ServiceCommand(inp, tokens, domain, action,
            IF remaining_tokens = <<>> THEN domain_targets
            ELSE IF r.kind = "Single" THEN <<ParsedTargetFrom(r.matches[1], c)>>
            ELSE IF r.kind = "Multiple"
            THEN [k \in 1..Len(take(filtered, IF Len(filtered) = 1 THEN 1 ELSE 5)) |->
                    ParsedTargetFrom(filtered[k], c)]
            ELSE domain_targets,
            IF remaining_tokens = <<>> THEN <<>>
            ELSE IF r.kind = "Single" THEN <<>>
            ELSE IF r.kind = "Multiple"
            THEN (IF Len(filtered) = 1 THEN <<>>
                  ELSE IF filtered # <<>>
                  THEN <<Note("Multiple matches found", <<>>, 0)>>
                  ELSE <<Note("No entities found in specified domain", <<>>, 0)>>)
            ELSE IF domain_targets = <<>> THEN <<Note("No entities found", <<>>, 0)>>
            ELSE <<>>)

\* the service of parse_service_based (nl.rs 681-701), given the match sm of
\* domain.service, and then the targets
ServiceAction(inp, tokens, domain, sm, c) ==
    LET service_token == tokens[3]
        domain_services == services_for_domain(c, domain)
        listed == FirstIn({k \in 1..Len(domain_services) :
                    to_lowercase(domain_services[k]) = to_lowercase(service_token)})
    IN  ServiceTargets(inp, tokens, domain,
            IF sm.kind = "Single" THEN c.services[sm.matches[1].item].service
            ELSE IF IsSome(listed) THEN domain_services[listed[1]]
            ELSE IF IsSome(find_action(service_token)) THEN find_action(service_token)[1]
            ELSE service_token,
            take(find_entities_in_domain(domain, c), 10),
            find_entity(join(ServiceTargetTokens(tokens), <<" ">>), c),
            c)

\* parse_service_based from the resolved domain on
ServiceOfDomain(inp, tokens, domain, c) ==
    ServiceAction(inp, tokens, domain, find_service(domain \o <<".">> \o tokens[3], c), c)

\* the domain of parse_service_based (nl.rs 672-679), given the match dm
ServiceDomain(dm, domain_token) ==
    IF dm.kind = "Single" THEN dm.matches[1].item ELSE domain_token

\* NLParser::parse_service_based (nl.rs 657-807)
parse_service_based(inp, tokens, c) ==
    ServiceOfDomain(inp, tokens, ServiceDomain(find_domain(tokens[2], c), tokens[2]), c)

\* the domain fallback without the take(10): the fault C1 is tested against
DomainFallback_uncapped(targets, notes, domain_hint, c) ==
    IF targets = <<>> /\ IsSome(domain_hint)
    THEN LET entities == find_entities_in_domain(domain_hint[1], c)
             entity_count == Len(entities)
         IN  IF entities # <<>> /\ entity_count <= 15
             THEN << [k \in 1..Len(entities) |->
                        FallbackTarget(entities[k], c, "domain_match", domain_hint[1])],
                     notes >>
             ELSE IF entity_count > 15
             THEN << targets,
                     Append(notes, Note("No specific entity matched, please be more specific",
                                        domain_hint[1], entity_count)) >>
             ELSE << targets, notes >>
    ELSE << targets, notes >>

\* the domain fallback without the 15-entity threshold: the fault C2 is
\* tested against
DomainFallback_unguarded(targets, notes, domain_hint, c) ==
    IF targets = <<>> /\ IsSome(domain_hint)
    THEN LET entities == find_entities_in_domain(domain_hint[1], c)
         IN  << [k \in 1..Len(take(entities, 10)) |->
                    FallbackTarget(entities[k], c, "domain_match", domain_hint[1])],
                notes >>
    ELSE << targets, notes >>

\* the domain fallback of parse (nl.rs 536-566) applied to the targets and
\* notes gathered so far: <<targets, notes>>
DomainFallback(targets, notes, domain_hint, c) ==
    IF targets = <<>> /\ IsSome(domain_hint)
    THEN LET entities == find_entities_in_domain(domain_hint[1], c)
             entity_count == Len(entities)
         IN  IF entities # <<>> /\ entity_count <= 15
             THEN << [k \in 1..Len(take(entities, 10)) |->
                        FallbackTarget(entities[k], c, "domain_match", domain_hint[1])],
                     IF notes # <<>>
                     THEN Append(notes, Note("No specific entity found, targeting all",
                                             domain_hint[1], Min2(entity_count, 10)))
                     ELSE notes >>
             ELSE IF entity_count > 15
             THEN << targets,
                     Append(notes, Note("No specific entity matched, please be more specific",
                                        domain_hint[1], entity_count)) >>
             ELSE << targets, notes >>
    ELSE << targets, notes >>

\* does parse take the explicit call/run path for these tokens (nl.rs 257)
IsServiceBased(tokens) ==
    Len(tokens) >= 3 /\ (tokens[1] = <<"c","a","l","l">> \/ tokens[1] = <<"r","u","n">>)

\* result.confidence = calculate_confidence(&result) (nl.rs 569), with the
\* domain_hint that build_interpretation is given
Rated(result, domain_hint) ==
    [result |-> [result EXCEPT !.confidence = calculate_confidence(result)],
     domain_hint |-> domain_hint]

\* is this a volume action (nl.rs 327-330)
is_volume_action(action) ==
    IsSome(action) /\ (contains(action[1], <<"v","o","l","u","m","e">>) \/ action[1] = <<"v","o","l","u","m","e","_","s","e","t">>)

\* the tokens that may name an entity (nl.rs 335-339)
entity_tokens(non_action_tokens) ==
    SelectSeq(non_action_tokens,
        LAMBDA t : parse_number(t) = None /\ parse_percentage(t) = None)

\* the ParsedCommand parse starts from (nl.rs 261-270), with the action of the scan
NewCommand(inp, action) ==
    [original |-> inp, action |-> action, targets |-> <<>>,
     parameters |-> <<>>, confidence |-> Ratio(0, 10),
     interpretation |-> <<>>, notes |-> <<>>, matched_area |-> None]

\* the light domain of an action that infers none (nl.rs 503-510)
DefaultDomain(domain_hint, action_mapping) ==
    IF domain_hint = None /\ IsSome(action_mapping)
       /\ ~action_mappings[action_mapping[1]].infers_domain
    THEN Some(<<"l","i","g","h","t">>)
    ELSE domain_hint

\* the area fallback without its cap of 10
AreaFallback_uncapped(targets, area_hint, domain_hint, in_area, c) ==
    LET area_filtered == IF IsSome(domain_hint)
                         THEN SelectSeq(in_area,
                                LAMBDA i : c.entities[i].domain = domain_hint[1])
                         ELSE in_area
    IN  IF targets = <<>> /\ IsSome(area_hint)
        THEN [k \in 1..Len(area_filtered) |->
                FallbackTarget(area_filtered[k], c, "area_match", area_hint[1])]
        ELSE targets

\* the area fallback of parse (nl.rs 513-534), given the entities of the area
AreaFallback(targets, area_hint, domain_hint, in_area, c) ==
    LET area_filtered == IF IsSome(domain_hint)
                         THEN SelectSeq(in_area,
                                LAMBDA i : c.entities[i].domain = domain_hint[1])
                         ELSE in_area
    IN  IF targets = <<>> /\ IsSome(area_hint)
        THEN [k \in 1..Len(take(area_filtered, 10)) |->
                FallbackTarget(area_filtered[k], c, "area_match", area_hint[1])]
        ELSE targets

\* the end of parse's main path (nl.rs 569), given the outcome fb of the fallbacks
AfterFallbacks(inp, scan, cls, fb) ==
    Rated([NewCommand(inp, scan.action) EXCEPT
                !.targets = fb[1],
                !.parameters = cls.parameters,
                !.notes = fb[2],
                !.matched_area = cls.area_hint],
          DefaultDomain(cls.domain_hint, scan.action_mapping))

\* parse from the default domain on (nl.rs 503-569), given the targets of the
\* area combinations and <<targets, notes>> of the residual step
AfterResidual(inp, scan, cls, combo, residual, c) ==
    AfterFallbacks(inp, scan, cls,
        DomainFallback(
            AreaFallback(combo \o residual[1], cls.area_hint,
                DefaultDomain(cls.domain_hint, scan.action_mapping),
                IF IsSome(cls.area_hint)
                THEN find_entities_in_area(cls.area_hint[1], c)
                ELSE <<>>,
                c),
            residual[2],
            DefaultDomain(cls.domain_hint, scan.action_mapping),
            c))

\* parse from PRIORITY 4 on (nl.rs 441-569), given the targets of the area
\* combinations
AfterCombination(inp, scan, cls, combo, c) ==
    AfterResidual(inp, scan, cls, combo,
        IF combo = <<>>
        THEN ResidualTargets(cls.remaining_tokens, cls.domain_hint, c)
        ELSE << <<>>, <<>> >>,
        c)

\* parse from PRIORITY 3 on (nl.rs 414-569), given the classification cls
AfterClassify(inp, scan, cls, c) ==
    AfterCombination(inp, scan, cls,
        AreaCombination(cls.remaining_tokens, cls.area_hint, c), c)

\* parse without the early return of PRIORITY 1: every token is classified
AfterCombined_classified(inp, scan, combined, c) ==
    AfterClassify(inp, scan,
        Classify(scan.non_action_tokens, is_volume_action(scan.action), c,
            [parameters |-> <<>>, domain_hint |-> None,
             area_hint |-> None, remaining_tokens |-> <<>>]),
        c)

\* parse from PRIORITY 1 on (nl.rs 341-569), given the match of the combined
\* entity name
AfterCombined(inp, scan, combined, c) ==
    IF join(entity_tokens(scan.non_action_tokens), <<" ">>) # <<>>
       /\ combined.kind = "Single" /\ ClearsFloor(combined.matches[1])
    THEN Rated([NewCommand(inp, scan.action) EXCEPT
                    !.targets = <<ParsedTargetFrom(combined.matches[1], c)>>,
                    !.parameters = CombinedParameters(scan.non_action_tokens,
                                        is_volume_action(scan.action), <<>>)],
               None)
    ELSE AfterClassify(inp, scan,
            Classify(scan.non_action_tokens, is_volume_action(scan.action), c,
                [parameters |-> <<>>, domain_hint |-> None,
                 area_hint |-> None, remaining_tokens |-> <<>>]),
            c)

\* parse after the action scan (nl.rs 326-569)
AfterScan(inp, scan, c) ==
    AfterCombined(inp, scan,
        find_entity(join(entity_tokens(scan.non_action_tokens), <<" ">>), c), c)

\* NLParser::parse on the main path up to the confidence (nl.rs 261-569):
\* the ParsedCommand with its interpretation still empty, and the domain_hint
\* that build_interpretation is given
parse_main(inp, tokens, c) ==
    AfterScan(inp,
        ActionScan(tokens, 1,
            [action |-> None, action_mapping |-> None, action_found |-> FALSE,
             skip_next |-> FALSE, non_action_tokens |-> <<>>]),
        c)

\* result.interpretation = build_interpretation(..) (nl.rs 570-572)
Interpreted(main, order) ==
    [main.result EXCEPT
        !.interpretation = build_interpretation(main.result, main.domain_hint, order)]

\* NLParser::parse; order is the iteration order of result.parameters that
\* build_interpretation meets
parse(inp, c, order) ==
    LET trimmed == trim(inp)
        tokens == tokenize(trimmed)
    IN  IF trimmed = <<>> THEN Err("Empty command")
        ELSE IF tokens = <<>> THEN Err("No tokens in command")
        ELSE IF IsServiceBased(tokens) THEN parse_service_based(trimmed, tokens, c)
        ELSE Ok(Interpreted(parse_main(trimmed, tokens, c), order))

\* the keys of the parameters parse collects for this input: what the HashMap
\* iterator of build_interpretation ranges over
ParameterKeys(inp, c) ==
    LET r == parse(inp, c, <<>>)
    IN  IF r.ok THEN DOMAIN r.v.parameters ELSE {}

\* ------------------------------------------------------------------------
\* Service-call builder (nl.rs)
\* ------------------------------------------------------------------------

STANDARD_DOMAINS ==
    { <<"a","u","t","o","m","a","t","i","o","n">>, <<"b","u","t","t","o","n">>, <<"c","a","m","e","r","a">>, <<"c","l","i","m","a","t","e">>, <<"c","o","v","e","r">>, <<"f","a","n">>,
      <<"h","u","m","i","d","i","f","i","e","r">>, <<"i","n","p","u","t","_","b","o","o","l","e","a","n">>, <<"l","i","g","h","t">>, <<"l","o","c","k">>, <<"m","e","d","i","a","_","p","l","a","y","e","r">>,
      <<"r","e","m","o","t","e">>, <<"s","c","e","n","e">>, <<"s","c","r","i","p","t">>, <<"s","i","r","e","n">>, <<"s","w","i","t","c","h">>, <<"v","a","c","u","u","m">>,
      <<"w","a","t","e","r","_","h","e","a","t","e","r">> }

\* (n as f64 / d as f64).round() as i64, for d > 0: halves round away from zero
round_div(n, d) ==
    IF n >= 0 THEN (2 * n + d) \div (2 * d)
    ELSE 0 - ((2 * (0 - n) + d) \div (2 * d))

\* (val as f64 / 100.0).clamp(0.0, 1.0) as a JSON number
volume_level(val) ==
    IF val < 0 THEN F64(0, 100) ELSE IF val > 100 THEN F64(100, 100) ELSE F64(val, 100)

\* one arm of the parameter conversion of to_service_call (nl.rs 923-968)
convert_parameter(data, domain, key, value) ==
    IF key = <<"b","r","i","g","h","t","n","e","s","s","_","p","c","t">>
    THEN (IF IsSome(as_i64(value))
          THEN insert(data, <<"b","r","i","g","h","t","n","e","s","s">>, I64(round_div(as_i64(value)[1] * 255, 100)))
          ELSE data)
    ELSE IF key = <<"v","a","l","u","e">>
    THEN (IF domain = <<"l","i","g","h","t">>
          THEN (IF IsSome(as_i64(value))
                THEN (IF as_i64(value)[1] <= 100
                      THEN insert(data, <<"b","r","i","g","h","t","n","e","s","s">>,
                                  I64(round_div(as_i64(value)[1] * 255, 100)))
                      ELSE insert(data, <<"b","r","i","g","h","t","n","e","s","s">>, value))
                ELSE data)
          ELSE IF domain = <<"c","l","i","m","a","t","e">> THEN insert(data, <<"t","e","m","p","e","r","a","t","u","r","e">>, value)
          ELSE IF domain = <<"m","e","d","i","a","_","p","l","a","y","e","r">>
          THEN (IF IsSome(as_i64(value))
                THEN insert(data, <<"v","o","l","u","m","e","_","l","e","v","e","l">>, volume_level(as_i64(value)[1]))
                ELSE data)
          ELSE insert(data, <<"v","a","l","u","e">>, value))
    ELSE IF key = <<"v","o","l","u","m","e","_","p","c","t">>
    THEN (IF IsSome(as_i64(value))
          THEN insert(data, <<"v","o","l","u","m","e","_","l","e","v","e","l">>, volume_level(as_i64(value)[1]))
          ELSE data)
    ELSE insert(data, key, value)

\* the parameter loop of to_service_call, over the keys in iteration order
RECURSIVE convert_parameters(_, _, _, _)
convert_parameters(order, parameters, domain, data) ==
    IF order = <<>> THEN data
    ELSE convert_parameters(Tail(order), parameters, domain,
            convert_parameter(data, domain, order[1], parameters[order[1]]))

\* the call's domain without the standard-domain test: the fault C7 is tested
\* against
service_domain_as_parsed(command) ==
    split(command.targets[1].entity_id, "dot", <<>>)[1]

\* the domain of the call (nl.rs 890-907): the text before the first '.' of
\* the first target's entity id, or the generic domain
service_domain(command) ==
    LET first_entity == command.targets[1].entity_id
        parsed_domain == split(first_entity, "dot", <<>>)[1]
    IN  IF parsed_domain \in STANDARD_DOMAINS THEN parsed_domain
        ELSE <<"h","o","m","e","a","s","s","i","s","t","a","n","t">>

\* the service of the call (nl.rs 889, 909-915)
service_name(command, domain) ==
    LET action == IF IsSome(command.action) THEN command.action[1] ELSE <<"t","u","r","n","_","o","n">>
        mapping == FirstIn({m \in 1..Len(action_mappings) :
                        action_mappings[m].default_service = action})
    IN  IF IsSome(mapping)
        THEN service_for_domain(action_mappings[mapping[1]], domain)
        ELSE action

\* the call's target carrying the matched area: the fault C8 is tested against
service_target_with_area(command) ==
    [entity_id |-> [i \in 1..Len(command.targets) |-> command.targets[i].entity_id],
     area_id |-> IF IsSome(command.matched_area) THEN Some(<<command.matched_area[1]>>)
                 ELSE None]

\* the target of the call (nl.rs 917, 974-977)
service_target(command) ==
    [entity_id |-> [i \in 1..Len(command.targets) |-> command.targets[i].entity_id],
     area_id |-> None]

\* to_service_call rejecting an entity id without a '.': the fault C3 is
\* tested against
to_service_call_dotted(command, order) ==
    IF command.targets = <<>> THEN Err("No targets specified")
    ELSE IF ~contains_char(command.targets[1].entity_id, ".")
    THEN Err("Invalid entity ID")
    ELSE Ok([domain |-> service_domain(command),
             service |-> service_name(command, service_domain(command)),
             target |-> service_target(command),
             data |-> convert_parameters(order, command.parameters,
                                         service_domain(command), <<>>)])

\* ParsedCommand::to_service_call; order is the iteration order of
\* self.parameters (a HashMap)
to_service_call(command, order) ==
    IF command.targets = <<>> THEN Err("No targets specified")
    ELSE Ok([domain |-> service_domain(command),
             service |-> service_name(command, service_domain(command)),
             target |-> service_target(command),
             data |-> convert_parameters(order, command.parameters,
                                         service_domain(command), <<>>)])

\* ------------------------------------------------------------------------
\* Registries and inputs the model explores.  Entity and area ids are Home
\* Assistant ids: lower-case, domain.object_id; friendly names, area names and
\* aliases are free text.
\* ------------------------------------------------------------------------

MaxLamps == 17
MaxWords == 2
MaxRawLen == 3

\* the registry of the parser's tests (nl.rs 988-1065), with a helper entity of
\* a non-standard domain and an area alias
Home ==
    [entities |->
        << CachedEntity(<<"l","i","g","h","t",".","k","i","t","c","h","e","n">>, Some(<<"K","i","t","c","h","e","n"," ","L","i","g","h","t">>), Some(<<"k","i","t","c","h","e","n">>)),
           CachedEntity(<<"l","i","g","h","t",".","h","a","l","l">>, Some(<<"H","a","l","l"," ","L","i","g","h","t">>), Some(<<"h","a","l","l">>)),
           CachedEntity(<<"s","w","i","t","c","h",".","f","a","n">>, Some(<<"F","a","n">>), Some(<<"k","i","t","c","h","e","n">>)),
           CachedEntity(<<"s","p","o","t","s",".","h","a","l","l">>, None, Some(<<"h","a","l","l">>)) >>,
     areas |->
        << CachedArea(<<"k","i","t","c","h","e","n">>, <<"K","i","t","c","h","e","n">>, <<>>),
           CachedArea(<<"h","a","l","l">>, <<"H","a","l","l">>, <<<<"E","n","t","r","y">>>>) >>,
     services |->
        << CachedService(<<"l","i","g","h","t">>, <<"t","u","r","n","_","o","n">>),
           CachedService(<<"l","i","g","h","t">>, <<"t","u","r","n","_","o","f","f">>),
           CachedService(<<"s","w","i","t","c","h">>, <<"t","o","g","g","l","e">>) >>]

\* a registry with n lights in one area, and a switch
Lamp(i) ==
    CachedEntity(<<"l","i","g","h","t",".","l","a","m","p">> \o <<AsciiOrder[8 + (i \div 10)], AsciiOrder[8 + (i % 10)]>>,
                 None, Some(<<"a","t","t","i","c">>))

Bulk(n) ==
    [entities |-> [i \in 1..n |-> Lamp(i)]
                  \o <<CachedEntity(<<"s","w","i","t","c","h",".","p","u","m","p">>, Some(<<"P","u","m","p">>), None)>>,
     areas |-> <<CachedArea(<<"a","t","t","i","c">>, <<"A","t","t","i","c">>, <<>>)>>,
     services |-> <<CachedService(<<"l","i","g","h","t">>, <<"t","u","r","n","_","o","n">>)>>]

\* the sequences of at most n elements of the set S
RECURSIVE SeqsUpTo(_, _)
SeqsUpTo(S, n) ==
    IF n = 0 THEN { <<>> }
    ELSE SeqsUpTo(S, n - 1)
         \cup { Append(q, x) : q \in { r \in SeqsUpTo(S, n - 1) : Len(r) = n - 1 }, x \in S }

HomeWords == { <<"t","u","r","n">>, <<"o","n">>, <<"k","i","t","c","h","e","n">>, <<"l","i","g","h","t","s">>, <<"5","0","%">>, <<"3","0">> }

\* longer commands on the same words
HomePhrases ==
    { <<"t","u","r","n"," ","o","n"," ","k","i","t","c","h","e","n"," ","l","i","g","h","t","s">>, <<"t","u","r","n"," ","o","n"," ","l","i","g","h","t","s"," ","5","0","%">>,
      <<"k","i","t","c","h","e","n"," ","5","0","%"," ","3","0">>, <<"3","0"," ","5","0","%"," ","l","i","g","h","t","s">>, <<"t","u","r","n"," ","o","n"," ","e","v","e","r","y","t","h","i","n","g"," ","k","i","t","c","h","e","n">>,
      <<"k","i","t","c","h","e","n"," ","3","0"," ","l","i","g","h","t","s"," ","5","0","%">>, <<"v","o","l","u","m","e"," ","u","p"," ","f","a","n"," ","4","0","%">>,
      <<"O","N"," ","o","f","f"," ","k","i","t","c","h","e","n">>, <<"o","n"," ","t","u","r","n"," ","o","f","f"," ","f","a","n">>, <<"o","f","f"," ","V","o","l","u","m","e"," ","U","P">>, <<"S","w","i","t","c","h"," ","o","n">>,
      <<"t","u","r","n"," ","v","o","l","u","m","e"," ","d","o","w","n"," ","o","n">>, <<"k","i","t","c","h","e","n"," ","3","0","0">>, <<"k","i","t","c","h","e","n"," ","1","0","1"," ","5","0","%">> }

BulkInputs ==
    { <<"t","u","r","n"," ","o","n"," ","l","i","g","h","t","s">>, <<"l","i","g","h","t","s"," ","o","n">>, <<"o","n"," ","l","i","g","h","t">>, <<"d","i","m">>, <<"d","i","m"," ","l","i","g","h","t","s"," ","5","0","%">>,
      <<"o","f","f"," ","a","t","t","i","c">>, <<"t","u","r","n"," ","o","f","f"," ","t","h","e"," ","a","t","t","i","c"," ","l","i","g","h","t","s">>, <<"o","n"," ","l","a","m","p">>, <<"t","o","g","g","l","e"," ","p","u","m","p">>,
      <<"c","a","l","l"," ","l","i","g","h","t"," ","t","u","r","n","_","o","n">>, <<"r","u","n"," ","l","i","g","h","t"," ","t","u","r","n","_","o","f","f"," ","l","a","m","p">>, <<"v","o","l","u","m","e"," ","u","p">>,
      <<"c","a","l","l"," ","l","i","g","h","t","s"," ","t","u","r","n","_","o","n"," ","5","0","%">>, <<"c","a","l","l"," ","l","i","g","h","t"," ","t","u","r","n","_","o","n"," ","z","z","z","z">>,
      <<"c","a","l","l"," ","l","i","g","h","t"," ","t","u","r","n","_","o","n"," ","5","0">>, <<"c","a","l","l"," ","l","i","g","h","t"," ","v","o","l","u","m","e","_","s","e","t"," ","4","0","%">>,
      <<"l","a","m","p","0","1"," ","l","a","m","p","0","2"," ","l","a","m","p","0","3"," ","l","a","m","p","0","4"," ","l","a","m","p","0","5"," ","l","a","m","p","0","6"," ","l","a","m","p","0","7"," ","l","a","m","p","0","8"," ","l","a","m","p","0","9"," ","l","a","m","p","1","0"," ","l","a","m","p","1","1">> }

RawChars == { " ", ",", "!", "a", "A" }

\* a registry with two switches of one name stem, a cover and a light
Parlour ==
    [entities |->
        << CachedEntity(<<"s","w","i","t","c","h",".","s","o","f","a","_","l","a","m","p","_","l","e","f","t">>, Some(<<"S","o","f","a"," ","L","a","m","p"," ","L","e","f","t">>), None),
           CachedEntity(<<"s","w","i","t","c","h",".","s","o","f","a","_","l","a","m","p","_","r","i","g","h","t">>, Some(<<"S","o","f","a"," ","L","a","m","p"," ","R","i","g","h","t">>), None),
           CachedEntity(<<"c","o","v","e","r",".","s","o","f","a">>, None, None),
           CachedEntity(<<"l","i","g","h","t",".","d","e","s","k">>, Some(<<"D","e","s","k">>), None) >>,
     areas |-> <<>>,
     services |-> << CachedService(<<"l","i","g","h","t">>, <<"t","u","r","n","_","o","n">>) >>]

ParlourInputs ==
    { <<"l","i","g","h","t","s"," ","s","o","f","a"," ","l","a","m","p">>, <<"s","o","f","a"," ","l","a","m","p">>, <<"o","n"," ","s","o","f","a"," ","l","a","m","p">>, <<"s","o","f","a"," ","d","e","x","k"," ","d","e","x","x">>,
      <<"s","o","f","a"," ","s","o","f","a">>, <<"o","n"," ","d","e","s","k"," ","s","o","f","a">> }

\* the (registry, text) pairs the model starts from
Scenarios ==
    { <<Home, join(ws, <<" ">>)>> : ws \in SeqsUpTo(HomeWords, MaxWords) }
    \cup { <<Home, t>> : t \in HomePhrases }
    \cup { <<Bulk(n), t>> : n \in 0..MaxLamps, t \in BulkInputs }
    \cup { <<Home, t>> : t \in SeqsUpTo(RawChars, MaxRawLen) }
    \cup { <<Parlour, t>> : t \in ParlourInputs }

\* the points per pattern character the skim scorer may give
SkimQualities == { 10, 14 }

NoResult == [ok |-> FALSE, v |-> "none"]

\* no distance asked for
NoDistance == [a |-> <<>>, b |-> <<>>, d |-> -1]

\* ------------------------------------------------------------------------
\* The state machine: a text is parsed against the registry, and the parsed
\* command is turned into a service call (commands/do_cmd.rs 35-46, 106)
\* ------------------------------------------------------------------------

Init ==
    /\ \E sc \in Scenarios : cache = sc[1] /\ input = sc[2]
    /\ skim \in SkimQualities
    /\ cmd = NoResult
    /\ call = NoResult
    /\ found = NoMatch
    /\ lev = NoDistance
    /\ toks = <<>>
    /\ pc = "start"

Parse ==
    /\ pc = "start"
    /\ \E order \in Orders(ParameterKeys(input, cache)) :
            cmd' = parse(input, cache, order)
    /\ pc' = "parsed"
    /\ UNCHANGED <<cache, skim, input, call, found, lev, toks>>

ToServiceCall ==
    /\ pc = "parsed"
    /\ cmd.ok
    /\ \E order \in Orders(DOMAIN cmd.v.parameters) :
            call' = to_service_call(cmd.v, order)
    /\ pc' = "called"
    /\ UNCHANGED <<cache, skim, input, cmd, found, lev, toks>>

Next == Parse \/ ToServiceCall

Spec == Init /\ [][Next]_vars

\* ------------------------------------------------------------------------
\* to_service_call on its own: the ParsedCommand is drawn from a bounded set
\* (ParsedCommand and its fields are public; nl.rs 1247-1376 builds them
\* by hand)
\* ------------------------------------------------------------------------

MaxTargets == 2
MaxPct == 100

\* entity ids of every standard domain, of helper domains, and ids that are
\* not of the domain.object_id form
CallIds ==
    { d \o <<".","x">> : d \in STANDARD_DOMAINS }
    \cup { <<"s","p","o","t","s",".","w","o","h","n","z","i","m","m","e","r">>, <<"l","i","g","h","t","s",".","l","i","v","i","n","g","_","r","o","o","m">>, <<"n","o","d","o","t">>, <<>>,
           <<"l","i","g","h","t">>, <<"L","i","g","h","t",".","x">>, <<"l","i","g","h","t",".","a",".","b">>, <<".","l","i","g","h","t">> }

MoreIds == { <<"l","i","g","h","t",".","h","a","l","l">>, <<"n","o","d","o","t">> }

CallTarget(id) ==
    [entity_id |-> id, friendly_name |-> None, match_type |-> "Exact",
     matched_input |-> id]

TargetLists ==
    { <<>> }
    \cup { <<CallTarget(i)>> \o [k \in 1..Len(rest) |-> CallTarget(rest[k])] :
            i \in CallIds, rest \in SeqsUpTo(MoreIds, MaxTargets - 1) }

CallActions ==
    { None, Some(<<"t","u","r","n","_","o","f","f">>), Some(<<"o","p","e","n","_","c","o","v","e","r">>), Some(<<"c","l","o","s","e","_","c","o","v","e","r">>),
      Some(<<"v","o","l","u","m","e","_","m","u","t","e">>), Some(<<"f","r","o","b","n","i","c","a","t","e">>) }

CallParameters ==
    { <<>>,
      insert(<<>>, <<"b","r","i","g","h","t","n","e","s","s","_","p","c","t">>, I64(50)),
      insert(<<>>, <<"v","a","l","u","e">>, I64(30)),
      insert(insert(<<>>, <<"v","o","l","u","m","e","_","p","c","t">>, I64(40)), <<"c","o","l","o","r">>, Str(<<"r","e","d">>)) }

Command(targets, action, parameters, matched_area) ==
    [original |-> <<>>, action |-> action, targets |-> targets,
     parameters |-> parameters, confidence |-> Ratio(8, 10),
     interpretation |-> <<>>, notes |-> <<>>, matched_area |-> matched_area]

\* a light, a helper and a switch with every brightness percentage, alone and
\* beside a plain number
BrightnessCommands ==
    { Command(<<CallTarget(id)>>, Some(<<"t","u","r","n","_","o","n">>), ps, None) :
        id \in { <<"l","i","g","h","t",".","k","i","t","c","h","e","n">>, <<"s","p","o","t","s",".","w","o","h","n","z","i","m","m","e","r">>, <<"s","w","i","t","c","h",".","f","a","n">> },
        ps \in { insert(<<>>, <<"b","r","i","g","h","t","n","e","s","s","_","p","c","t">>, I64(p)) : p \in 0..MaxPct }
               \cup { insert(insert(<<>>, <<"b","r","i","g","h","t","n","e","s","s","_","p","c","t">>, I64(p)), <<"v","a","l","u","e">>, I64(30)) :
                        p \in 0..MaxPct } }

Commands ==
    { Command(ts, a, ps, ma) :
        ts \in TargetLists, a \in CallActions, ps \in CallParameters,
        ma \in { None, Some(<<"k","i","t","c","h","e","n">>) } }
    \cup BrightnessCommands

InitCall ==
    /\ cache = Home
    /\ input = <<>>
    /\ skim = 14
    /\ \E command \in Commands : cmd = Ok(command)
    /\ call = NoResult
    /\ found = NoMatch
    /\ lev = NoDistance
    /\ toks = <<>>
    /\ pc = "parsed"

SpecCall == InitCall /\ [][ToServiceCall]_vars

\* ------------------------------------------------------------------------
\* find_entity on its own: a registry and an input, among them every entity's
\* id, object id and friendly name in several letter cases
\* ------------------------------------------------------------------------

UpperChar(c) ==
    IF \E u \in UpperLetters : LowerOf[u] = c
    THEN CHOOSE u \in UpperLetters : LowerOf[u] = c
    ELSE c

to_uppercase(s) == [i \in 1..Len(s) |-> UpperChar(s[i])]

capitalize(s) == IF s = <<>> THEN s ELSE <<UpperChar(s[1])>> \o Tail(s)

CaseVariants(s) == { s, to_lowercase(s), to_uppercase(s), capitalize(s) }

\* a registry whose names differ from the ids, one of them in mixed case
Villa ==
    [entities |->
        << CachedEntity(<<"l","i","g","h","t",".","l","r","_","m","a","i","n">>, Some(<<"L","i","v","i","n","g"," ","R","o","o","m">>), Some(<<"l","i","v","i","n","g">>)),
           CachedEntity(<<"c","o","v","e","r",".","g","a","r","a","g","e">>, Some(<<"G","A","R","A","G","E"," ","d","o","o","r">>), None),
           CachedEntity(<<"s","e","n","s","o","r",".","l","i","v","i","n","g","_","r","o","o","m">>, None, Some(<<"l","i","v","i","n","g">>)),
           CachedEntity(<<"l","i","g","h","t",".","g","a","r","a","g","e">>, Some(<<"L","i","v","i","n","g"," ","r","o","o","m">>), None) >>,
     areas |-> << CachedArea(<<"l","i","v","i","n","g">>, <<"L","i","v","i","n","g">>, <<>>) >>,
     services |-> << CachedService(<<"l","i","g","h","t">>, <<"t","u","r","n","_","o","n">>) >>]

\* a registry with domains that share a prefix, a domain ending in "ie", and
\* an area whose id is not its name
Clocks ==
    [entities |->
        << CachedEntity(<<"t","i","m","e",".","a","l","a","r","m">>, Some(<<"W","a","k","e"," ","U","p">>), Some(<<"l","r">>)),
           CachedEntity(<<"t","i","m","e","r",".","o","v","e","n">>, None, None),
           CachedEntity(<<"m","o","v","i","e",".","n","i","g","h","t">>, None, Some(<<"l","r">>)) >>,
     areas |-> << CachedArea(<<"l","r">>, <<"L","i","v","i","n","g"," ","R","o","o","m">>, <<<<"L","o","u","n","g","e">>>>),
                  CachedArea(<<"d","e","n">>, <<"D","e","n">>, <<>>) >>,
     services |-> << CachedService(<<"t","i","m","e","r">>, <<"s","t","a","r","t">>),
                     CachedService(<<"t","i","m","e">>, <<"s","e","t","_","v","a","l","u","e">>) >>]

FindRegistries == { Home, Villa, Bulk(2), Clocks }

\* the names of the registry's items, as typed by a user
FindInputs(c) ==
    UNION { CaseVariants(c.entities[i].entity_id)
            \cup CaseVariants(c.entities[i].object_id)
            \cup (IF IsSome(c.entities[i].friendly_name)
                  THEN CaseVariants(c.entities[i].friendly_name[1]) ELSE {})
            \cup Range(c.entities[i].search_names) :
            i \in 1..Len(c.entities) }
    \cup UNION { CaseVariants(c.areas[i].area_id) \cup CaseVariants(c.areas[i].name)
                 \cup Range(c.areas[i].search_names) : i \in 1..Len(c.areas) }
    \cup UNION { { c.services[i].service, c.services[i].full_name,
                   capitalize(c.services[i].full_name) } : i \in 1..Len(c.services) }
    \cup UNION { { domains(c)[i], domains(c)[i] \o <<"s">>, capitalize(domains(c)[i] \o <<"s">>) } :
                 i \in 1..Len(domains(c)) }
    \cup { <<"k","i","t","c","h">>, <<"k","i","t","c","h","n">>, <<"l","i","v","i","n","g">>, <<"l","a","m","p">>, <<"z","z","z","z">>, <<>>,
           <<"k","c","h","n","l","t">>, <<"l","v","n","g","r","m">>, <<"t","m","r","s","t","r","t">>, <<"l","o","u","n","g","g","e">>, <<"t","m","e">>, <<"d","l","n">>, <<"s","w","t","c","h">>, <<"f","a","l","l">>,
           <<"l","i","g","h","t",".","t","u","r","n","_","o","n","n">> }

InitFind ==
    /\ \E c \in FindRegistries : \E inp \in FindInputs(c) :
            cache = c /\ input = inp
    /\ skim \in SkimQualities
    /\ cmd = NoResult
    /\ call = NoResult
    /\ found = NoMatch
    /\ lev = NoDistance
    /\ toks = <<>>
    /\ pc = "start"

\* matcher.find_entity(input, cache)
FindEntity ==
    /\ pc = "start"
    /\ found' = find_entity(input, cache)
    /\ pc' = "found"
    /\ UNCHANGED <<cache, skim, input, cmd, call, lev, toks>>

\* matcher.find_area(input, cache)
FindArea ==
    /\ pc = "start"
    /\ found' = find_area(input, cache)
    /\ pc' = "found_area"
    /\ UNCHANGED <<cache, skim, input, cmd, call, lev, toks>>

\* matcher.find_service(input, cache)
FindService ==
    /\ pc = "start"
    /\ found' = find_service(input, cache)
    /\ pc' = "found_service"
    /\ UNCHANGED <<cache, skim, input, cmd, call, lev, toks>>

\* matcher.find_domain(input, cache)
FindDomain ==
    /\ pc = "start"
    /\ found' = find_domain(input, cache)
    /\ pc' = "found_domain"
    /\ UNCHANGED <<cache, skim, input, cmd, call, lev, toks>>

NextFind == FindEntity \/ FindArea \/ FindService \/ FindDomain

SpecFind == InitFind /\ [][NextFind]_vars

\* ------------------------------------------------------------------------
\* levenshtein on its own: two texts over a small alphabet, long enough for
\* their lengths to differ by more than MAX_EDIT_DISTANCE
\* ------------------------------------------------------------------------

MaxLevLen == 4

LevChars == { "a", "b" }

LevTexts == SeqsUpTo(LevChars, MaxLevLen)

InitLev ==
    /\ cache = Home
    /\ input = <<>>
    /\ skim = 14
    /\ cmd = NoResult
    /\ call = NoResult
    /\ found = NoMatch
    /\ \E x \in LevTexts, y \in LevTexts : lev = [a |-> x, b |-> y, d |-> -1]
    /\ toks = <<>>
    /\ pc = "start"

\* levenshtein(a, b)
Levenshtein ==
    /\ pc = "start"
    /\ lev' = [lev EXCEPT !.d = levenshtein(lev.a, lev.b)]
    /\ pc' = "measured"
    /\ UNCHANGED <<cache, skim, input, cmd, call, found, toks>>

SpecLev == InitLev /\ [][Levenshtein]_vars

\* ------------------------------------------------------------------------
\* tokenize on its own: texts of separators, punctuation, a kept sign, a stop
\* word in both letter cases and another letter
\* ------------------------------------------------------------------------

MaxTokLen == 4

TokChars == { " ", ",", "!", "_", "a", "A", "o" }

InitTok ==
    /\ cache = Home
    /\ input \in SeqsUpTo(TokChars, MaxTokLen)
    /\ skim = 14
    /\ cmd = NoResult
    /\ call = NoResult
    /\ found = NoMatch
    /\ lev = NoDistance
    /\ toks = <<>>
    /\ pc = "start"

\* tokenize(input)
Tokenize ==
    /\ pc = "start"
    /\ toks' = tokenize(input)
    /\ pc' = "tokenized"
    /\ UNCHANGED <<cache, skim, input, cmd, call, found, lev>>

SpecTok == InitTok /\ [][Tokenize]_vars

\* ------------------------------------------------------------------------
\* Properties
\* ------------------------------------------------------------------------

\* what the properties read off the state
Tokens == tokenize(trim(input))

OnMainPath == pc # "start" /\ cmd.ok /\ ~IsServiceBased(Tokens)

DomainHint == parse_main(trim(input), Tokens, cache).domain_hint

TargetIds == [i \in 1..Len(cmd.v.targets) |-> cmd.v.targets[i].entity_id]

\* the ids of the registry's entities of a domain, in registry order
DomainIds(d) ==
    LET es == SelectSeq(cache.entities, LAMBDA e : e.domain = d)
    IN  [i \in 1..Len(es) |-> es[i].entity_id]

\* no entity and no area gave a target: whatever is targeted came from the
\* domain fallback
NothingMatched ==
    /\ cmd.v.matched_area = None
    /\ \A i \in 1..Len(cmd.v.targets) : cmd.v.targets[i].match_type = "domain_match"

\* an action and a token that resolves to the hinted domain, nothing matched
BareDomainCommand(hint) ==
    /\ OnMainPath
    /\ IsSome(cmd.v.action)
    /\ NothingMatched
    /\ IsSome(hint)
    /\ \E k \in 1..Len(Tokens) :
            LET r == find_domain(Tokens[k], cache)
            IN  r.kind = "Single" /\ r.matches[1].item = hint[1]

C2_TooManyToTarget ==
    LET hint == DomainHint
    IN  (OnMainPath /\ NothingMatched /\ IsSome(hint)
            /\ Len(DomainIds(hint[1])) > 15)
        => /\ cmd.v.targets = <<>>
           /\ \E k \in 1..Len(cmd.v.notes) :
                /\ cmd.v.notes[k].text = "No specific entity matched, please be more specific"
                /\ cmd.v.notes[k].domain = hint[1]
                /\ cmd.v.notes[k].count = Len(DomainIds(hint[1]))

\* a command on a domain of 17 entities came back without targets, with a note
C2_Witness ==
    LET hint == DomainHint
    IN  /\ pc = "parsed"
        /\ OnMainPath
        /\ cmd.v.targets = <<>>
        /\ cmd.v.notes # <<>>
        /\ IsSome(hint)
        /\ Len(DomainIds(hint[1])) = 17

\* C3: to_service_call returns an error exactly when the targets are empty;
\* with at least one target, whatever its id, it returns a ServiceCall.
C3_ErrorIffNoTargets ==
    pc = "called" => (call.ok <=> cmd.v.targets # <<>>)

\* a call was built for a target whose id has no '.'
C3_Witness ==
    /\ pc = "called"
    /\ cmd.v.targets # <<>>
    /\ ~contains_char(cmd.v.targets[1].entity_id, ".")
    /\ IsSome(cmd.v.action)
    /\ call.ok

\* the whitespace- or comma-separated pieces of the input as typed
Pieces == SelectSeq(split(input, "sep", <<>>), LAMBDA p : p # <<>>)

\* C4: parse returns an error for every input that is empty or whitespace
\* only, and for every input all of whose pieces are stop words in any letter
\* case.
C4_NothingToParse ==
    (pc # "start"
        /\ \A k \in 1..Len(Pieces) : to_lowercase(Pieces[k]) \in StopWords)
    => ~cmd.ok

\* an input holding an upper-case stop word and nothing else was refused
C4_Witness ==
    /\ pc = "parsed"
    /\ Pieces # <<>>
    /\ \A k \in 1..Len(Pieces) : to_lowercase(Pieces[k]) \in StopWords
    /\ \E k \in 1..Len(Pieces) : Pieces[k] \notin StopWords
    /\ ~cmd.ok

\* C5 as stated: parse fails only when the input is empty or all of its pieces
\* are stop words; an input with a piece that is not a stop word is parsed.
C5_FailsOnlyOnStopWords ==
    (pc # "start"
        /\ \E k \in 1..Len(Pieces) : to_lowercase(Pieces[k]) \notin StopWords)
    => cmd.ok

\* a piece with the characters other than letters, digits, '%', '_' and '.'
\* taken off both ends
Stripped(p) == trim_matches(p, "punct")

\* C5 amended: parse fails exactly when every piece of the input, once the
\* characters other than letters, digits, '%', '_' and '.' are taken off its
\* ends, is empty or a stop word.
C5_FailsIffNoToken ==
    pc # "start"
    => (cmd.ok <=> \E k \in 1..Len(Pieces) :
                        /\ Stripped(Pieces[k]) # <<>>
                        /\ to_lowercase(Stripped(Pieces[k])) \notin StopWords)

\* an input of punctuation only, which is no stop word, was refused
C5_Witness ==
    /\ pc = "parsed"
    /\ Pieces # <<>>
    /\ \A k \in 1..Len(Pieces) : Stripped(Pieces[k]) = <<>>
    /\ ~cmd.ok

\* C6: a command carrying brightness_pct = p, 0 <= p <= 100, gets the payload
\* entry brightness = p * 255 / 100 rounded half up, within 0..255, and no
\* brightness_pct entry.
C6_BrightnessFromPct ==
    (pc = "called" /\ call.ok /\ <<"b","r","i","g","h","t","n","e","s","s","_","p","c","t">> \in DOMAIN cmd.v.parameters)
    => LET v == cmd.v.parameters[<<"b","r","i","g","h","t","n","e","s","s","_","p","c","t">>]
       IN  (v[1] = "i64" /\ v[2] \in 0..100)
           => /\ <<"b","r","i","g","h","t","n","e","s","s">> \in DOMAIN call.v.data
              /\ call.v.data[<<"b","r","i","g","h","t","n","e","s","s">>] = I64((v[2] * 255 + 50) \div 100)
              /\ (v[2] * 255 + 50) \div 100 \in 0..255
              /\ <<"b","r","i","g","h","t","n","e","s","s","_","p","c","t">> \notin DOMAIN call.v.data

\* the text of an id before its first '.', all of it when it has none
PrefixOf(id) ==
    IF \E k \in 1..Len(id) : id[k] = "."
    THEN SubSeq(id, 1, (CHOOSE k \in 1..Len(id) :
                            id[k] = "." /\ \A j \in 1..(k - 1) : id[j] # ".") - 1)
    ELSE id

\* C7: the call's domain is the prefix of the first target's id when that is
\* one of the 18 standard domains and homeassistant otherwise; the target ids
\* are passed through unchanged.
C7_DomainOrGeneric ==
    (pc = "called" /\ call.ok)
    => /\ Cardinality(STANDARD_DOMAINS) = 18
       /\ call.v.domain = IF PrefixOf(cmd.v.targets[1].entity_id) \in STANDARD_DOMAINS
                          THEN PrefixOf(cmd.v.targets[1].entity_id)
                          ELSE <<"h","o","m","e","a","s","s","i","s","t","a","n","t">>
       /\ call.v.target.entity_id[1] = cmd.v.targets[1].entity_id

\* the helper entity spots.wohnzimmer was called through homeassistant
C7_Witness ==
    /\ pc = "called"
    /\ call.ok
    /\ cmd.v.targets[1].entity_id = <<"s","p","o","t","s",".","w","o","h","n","z","i","m","m","e","r">>
    /\ call.v.domain = <<"h","o","m","e","a","s","s","i","s","t","a","n","t">>
    /\ call.v.target.entity_id[1] = <<"s","p","o","t","s",".","w","o","h","n","z","i","m","m","e","r">>

\* C8: the call's target.entity_id is the sequence of the command's target
\* ids, in order, and target.area_id is absent even with a matched area.
C8_TargetsVerbatim ==
    (pc = "called" /\ call.ok)
    => /\ call.v.target.entity_id = TargetIds
       /\ call.v.target.area_id = None

\* a call was built from two different targets and a matched area
C8_Witness ==
    /\ pc = "called"
    /\ call.ok
    /\ Len(cmd.v.targets) = 2
    /\ cmd.v.targets[1].entity_id # cmd.v.targets[2].entity_id
    /\ IsSome(cmd.v.matched_area)
    /\ call.v.target.area_id = None

\* C9: for a fixed registry and input, parse and to_service_call give one
\* ParsedCommand (interpretation included) and one payload, whatever order
\* the parameter map is iterated in.
C9_Deterministic ==
    /\ pc # "start"
       => \A order \in Orders(ParameterKeys(input, cache)) :
                parse(input, cache, order) = cmd
    /\ pc = "called"
       => \A order \in Orders(DOMAIN cmd.v.parameters) :
                to_service_call(cmd.v, order) = call

\* equality of two texts ignoring letter case
EqIgnoreCase(a, b) ==
    Len(a) = Len(b) /\ \A k \in 1..Len(a) : LowerChar(a[k]) = LowerChar(b[k])

InputNamesEntity ==
    \E i \in 1..Len(cache.entities) :
        \/ EqIgnoreCase(input, cache.entities[i].entity_id)
        \/ EqIgnoreCase(input, cache.entities[i].object_id)
        \/ /\ IsSome(cache.entities[i].friendly_name)
           /\ EqIgnoreCase(input, cache.entities[i].friendly_name[1])

\* C10: find_entity on an input equal, ignoring letter case, to an entity's
\* id, object id or friendly name returns Single, Exact, confidence 1.0.
C10_ExactIsSingle ==
    (pc = "found" /\ InputNamesEntity)
    => /\ found.kind = "Single"
       /\ Len(found.matches) = 1
       /\ found.matches[1].match_type = Exact
       /\ REq(found.matches[1].confidence, Ratio(1, 1))

\* an object id typed in capitals was found exactly
C10_Witness ==
    /\ pc = "found"
    /\ input # to_lowercase(input)
    /\ \E i \in 1..Len(cache.entities) :
            /\ EqIgnoreCase(input, cache.entities[i].object_id)
            /\ ~EqIgnoreCase(input, cache.entities[i].entity_id)
    /\ found.kind = "Single"
    /\ found.matches[1].match_type = Exact

\* whether b can be made from a with at most k insertions, deletions and
\* substitutions of one character
RECURSIVE WithinEdits(_, _, _)
WithinEdits(a, b, k) ==
    IF k < 0 THEN FALSE
    ELSE IF a = <<>> THEN Len(b) <= k
    ELSE IF b = <<>> THEN Len(a) <= k
    ELSE IF a[1] = b[1] THEN WithinEdits(Tail(a), Tail(b), k)
    ELSE \/ WithinEdits(Tail(a), b, k - 1)
         \/ WithinEdits(a, Tail(b), k - 1)
         \/ WithinEdits(Tail(a), Tail(b), k - 1)

\* the least number of edits that turn a into b
EditDistance(a, b) ==
    CHOOSE k \in 0..(Len(a) + Len(b)) :
        WithinEdits(a, b, k) /\ ~WithinEdits(a, b, k - 1)

\* C14: levenshtein(a, b) is the least number of one-character insertions,
\* deletions and substitutions when the lengths differ by at most 2 or one
\* text is empty, and 3 when both are non-empty and the lengths differ by more
\* than 2; so it is at most 2 exactly when the least number of edits is.
C14_DistanceUpToCutoff ==
    pc = "measured"
    => /\ (AbsDiff(Len(lev.a), Len(lev.b)) <= 2 \/ lev.a = <<>> \/ lev.b = <<>>)
            => lev.d = EditDistance(lev.a, lev.b)
       /\ (AbsDiff(Len(lev.a), Len(lev.b)) > 2 /\ lev.a # <<>> /\ lev.b # <<>>)
            => lev.d = 3
       /\ lev.d <= 2 <=> EditDistance(lev.a, lev.b) <= 2

\* two texts four edits apart, their lengths three apart, were given distance 3
C14_Witness ==
    /\ pc = "measured"
    /\ lev.a # <<>>
    /\ Len(lev.b) = Len(lev.a) + 3
    /\ EditDistance(lev.a, lev.b) = 4
    /\ lev.d = 3

\* the known domains the input is the plural of
PluralOf == { d \in Range(domains(cache)) : input = d \o <<"s">> }

\* C11: find_domain on a known domain followed by 's' returns Single with
\* that domain as its item, the domain find_domain returns for the singular,
\* whatever other domains the registry holds.
C11_PluralIsDomain ==
    pc = "found_domain"
    => \A d \in PluralOf :
            /\ found.kind = "Single"
            /\ found.matches[1].item = d
            /\ find_domain(d, cache).kind = "Single"
            /\ find_domain(d, cache).matches[1].item = d

\* the aliases of the items the last find_entity or find_area call searched
SearchedNames ==
    IF pc = "found"
    THEN UNION { Range(cache.entities[i].search_names) : i \in 1..Len(cache.entities) }
    ELSE UNION { Range(cache.areas[i].search_names) : i \in 1..Len(cache.areas) }

\* the input is, ignoring letter case, the beginning of an alias
PrefixCandidate ==
    \E name \in SearchedNames :
        /\ Len(input) <= Len(name)
        /\ EqIgnoreCase(input, SubSeq(name, 1, Len(input)))

\* an alias is one or two edits away from the input, ignoring letter case
TypoCandidate ==
    \E name \in SearchedNames :
        /\ WithinEdits(to_lowercase(input), to_lowercase(name), 2)
        /\ ~WithinEdits(to_lowercase(input), to_lowercase(name), 0)

\* the scorer gives an alias at least the minimum score
FuzzyCandidate ==
    \E name \in SearchedNames :
        LET score == fuzzy_match(name, to_lowercase(input))
        IN  IsSome(score) /\ score[1] >= MIN_FUZZY_SCORE

FoundTags == { found.matches[k].match_type.tag : k \in 1..Len(found.matches) }

\* C12: find_entity and find_area stop at the first tier with a candidate:
\* the matches of a result are of one kind; a Typo result means the input is
\* no prefix of any alias; a Fuzzy result means moreover that no alias is one
\* or two edits away; None means that no tier has a candidate.
C12_StrictCascade ==
    pc \in {"found", "found_area"}
    => /\ Cardinality(FoundTags) <= 1
       /\ "Typo" \in FoundTags => ~PrefixCandidate
       /\ "Fuzzy" \in FoundTags => (~PrefixCandidate /\ ~TypoCandidate)
       /\ found.kind = "None"
            => (~PrefixCandidate /\ ~TypoCandidate /\ ~FuzzyCandidate)

\* find_entity returned several typo matches, one and two edits away
C12_Witness ==
    /\ pc = "found"
    /\ found.kind = "Multiple"
    /\ \E j, k \in 1..Len(found.matches) :
            /\ found.matches[j].match_type = Typo(1)
            /\ found.matches[k].match_type = Typo(2)

\* the items one of whose search names is the input, ignoring letter case
ItemsNamed ==
    IF pc = "found"
    THEN { i \in 1..Len(cache.entities) :
            \E name \in Range(cache.entities[i].search_names) : EqIgnoreCase(input, name) }
    ELSE { i \in 1..Len(cache.areas) :
            \E name \in Range(cache.areas[i].search_names) : EqIgnoreCase(input, name) }

\* the items whose id, short form, display name or user alias is the input,
\* ignoring letter case
ItemsNamedExactly ==
    IF pc = "found"
    THEN { i \in 1..Len(cache.entities) :
            \/ EqIgnoreCase(input, cache.entities[i].entity_id)
            \/ EqIgnoreCase(input, cache.entities[i].object_id)
            \/ /\ IsSome(cache.entities[i].friendly_name)
               /\ EqIgnoreCase(input, cache.entities[i].friendly_name[1]) }
    ELSE { i \in 1..Len(cache.areas) :
            \/ EqIgnoreCase(input, cache.areas[i].area_id)
            \/ EqIgnoreCase(input, cache.areas[i].name)
            \/ \E alias \in Range(cache.areas[i].aliases) : EqIgnoreCase(input, alias) }

\* the least element of a non-empty set of indices
FirstOf(S) == CHOOSE i \in S : \A j \in S : i <= j

\* the result is Single, Exact, for item i
IsExactFor(i) ==
    /\ found.kind = "Single"
    /\ found.matches[1].match_type = Exact
    /\ found.matches[1].item = i

\* C13 as stated: when the input is, ignoring letter case, any search name of
\* some entity (find_entity) or area (find_area), the result is Single and
\* Exact for the first such item in registry order.
C13_ExactOnEveryAlias ==
    (pc \in {"found", "found_area"} /\ ItemsNamed # {})
    => IsExactFor(FirstOf(ItemsNamed))

\* C13 amended: when the input is, ignoring letter case, the id, the object id
\* or the friendly name of some entity, or the id, the name or a user alias of
\* some area, the result is Single and Exact for the first such item in
\* registry order.
C13_ExactOnNamedFields ==
    (pc \in {"found", "found_area"} /\ ItemsNamedExactly # {})
    => IsExactFor(FirstOf(ItemsNamedExactly))

\* an area was found exactly by a user alias typed in another letter case
C13_Witness ==
    /\ pc = "found_area"
    /\ \E i \in ItemsNamedExactly :
            /\ ~EqIgnoreCase(input, cache.areas[i].area_id)
            /\ ~EqIgnoreCase(input, cache.areas[i].name)
            /\ input \notin Range(cache.areas[i].aliases)
            /\ IsExactFor(i)

\* the confidence the kind of a match fixes
ConfidenceOfKind(m) ==
    CASE m.match_type = Exact -> REq(m.confidence, Ratio(1, 1))
      [] m.match_type = Prefix -> REq(m.confidence, Ratio(9, 10))
      [] m.match_type = Typo(1) -> REq(m.confidence, Ratio(8, 10))
      [] m.match_type = Typo(2) -> REq(m.confidence, Ratio(6, 10))
      [] m.match_type = Fuzzy -> /\ RLess(Ratio(0, 1), m.confidence)
                                 /\ RLeq(m.confidence, Ratio(85, 100))
      [] OTHER -> FALSE

\* C15: every match find_entity, find_area, find_service and find_domain
\* return has the confidence of its kind: Exact 1.0, Prefix 0.9, Typo 0.8 at
\* distance 1 and 0.6 at distance 2, Fuzzy above 0 and at most 0.85; every
\* confidence lies in [0, 1].
C15_ConfidenceByKind ==
    pc \in {"found", "found_area", "found_service", "found_domain"}
    => \A k \in 1..Len(found.matches) :
            /\ ConfidenceOfKind(found.matches[k])
            /\ RLeq(Ratio(0, 1), found.matches[k].confidence)
            /\ RLeq(found.matches[k].confidence, Ratio(1, 1))

\* a fuzzy match whose score ratio was above the cap got 0.85
C15_Witness ==
    /\ pc \in {"found", "found_area", "found_service"}
    /\ found.kind # "None"
    /\ found.matches[1].match_type = Fuzzy
    /\ RLess(Ratio(85, 100), Ratio(skim * Len(input), 16 * Len(input)))
    /\ REq(found.matches[1].confidence, Ratio(85, 100))

\* the action to_service_call works with
CallAction == IF IsSome(cmd.v.action) THEN cmd.v.action[1] ELSE <<"t","u","r","n","_","o","n">>

\* the entries of the action table whose default service is the action
EntriesOf(action) ==
    { m \in 1..Len(action_mappings) : action_mappings[m].default_service = action }

\* C16: the service of the call is fixed by the action and the call's domain:
\* for an action that is the default service of table entries, every such
\* entry's override for the domain when it has one and its default service
\* otherwise (open_cover on a lock is unlock, close_cover on a lock is lock);
\* any other action unchanged; a missing action counts as turn_on.
C16_ServiceByActionAndDomain ==
    (pc = "called" /\ call.ok)
    => /\ \A m \in EntriesOf(CallAction) :
            LET over == { kv \in action_mappings[m].domain_overrides :
                            kv[1] = call.v.domain }
            IN  /\ over # {} => \A kv \in over : call.v.service = kv[2]
                /\ over = {} => call.v.service = action_mappings[m].default_service
       /\ EntriesOf(CallAction) = {} => call.v.service = CallAction
       /\ (CallAction = <<"o","p","e","n","_","c","o","v","e","r">> /\ call.v.domain = <<"l","o","c","k">>)
            => call.v.service = <<"u","n","l","o","c","k">>
       /\ (CallAction = <<"c","l","o","s","e","_","c","o","v","e","r">> /\ call.v.domain = <<"l","o","c","k">>)
            => call.v.service = <<"l","o","c","k">>

\* open_cover on a lock became the service unlock
C16_Witness ==
    /\ pc = "called"
    /\ call.ok
    /\ cmd.v.action = Some(<<"o","p","e","n","_","c","o","v","e","r">>)
    /\ call.v.domain = <<"l","o","c","k">>
    /\ call.v.service = <<"u","n","l","o","c","k">>

IsSeparator(c) == is_whitespace(c) \/ c = ","

IsKept(c) == is_alphanumeric(c) \/ c \in {"%", "_", "."}

\* the maximal runs <<first, last>> of characters of the input that are not
\* separators
Runs ==
    { r \in (1..Len(input)) \X (1..Len(input)) :
        /\ r[1] <= r[2]
        /\ \A k \in r[1]..r[2] : ~IsSeparator(input[k])
        /\ r[1] = 1 \/ IsSeparator(input[r[1] - 1])
        /\ r[2] = Len(input) \/ IsSeparator(input[r[2] + 1]) }

\* a run from its first to its last kept character
Core(r) ==
    LET ks == { k \in r[1]..r[2] : IsKept(input[k]) }
    IN  IF ks = {} THEN <<>>
        ELSE SubSeq(input, CHOOSE k \in ks : \A j \in ks : k <= j,
                           CHOOSE k \in ks : \A j \in ks : k >= j)

\* the runs that leave a token
TokenRuns == { r \in Runs : Core(r) # <<>> /\ to_lowercase(Core(r)) \notin StopWords }

\* C17: the tokens are, in the order of the input, the pieces between
\* whitespace and commas with the characters other than alphanumerics, '%',
\* '_' and '.' taken off both ends, without the empty pieces and the stop
\* words in any letter case; no token is empty or a stop word.
C17_TokensAreTrimmedPieces ==
    pc = "tokenized"
    => /\ Len(toks) = Cardinality(TokenRuns)
       /\ \A r \in TokenRuns :
            toks[Cardinality({ q \in TokenRuns : q[1] <= r[1] })] = Core(r)
       /\ \A k \in 1..Len(toks) :
            toks[k] # <<>> /\ to_lowercase(toks[k]) \notin StopWords

\* a text of two pieces left one token: the other piece, a stop word in
\* capitals next to punctuation, went
C17_Witness ==
    /\ pc = "tokenized"
    /\ Len(toks) = 1
    /\ Cardinality(Runs) = 2
    /\ \E r \in Runs : /\ Core(r) # SubSeq(input, r[1], r[2])
                        /\ Core(r) \notin StopWords
                        /\ to_lowercase(Core(r)) \in StopWords

\* the command was parsed on the explicit path
OnExplicitPath == pc # "start" /\ cmd.ok /\ IsServiceBased(Tokens)

\* the domain the explicit path resolved: the single match of the second
\* token, or the token itself
ExplicitDomain ==
    LET dm == find_domain(Tokens[2], cache)
    IN  IF dm.kind = "Single" THEN dm.matches[1].item ELSE Tokens[2]

\* the tokens after the service that are neither a percentage nor a number
EntityNameTokens ==
    SelectSeq(SubSeq(Tokens, 4, Len(Tokens)),
        LAMBDA t : parse_percentage(t) = None /\ parse_number(t) = None)

\* C18: on the explicit path without entity-name tokens the targets are the
\* first min(10, n) of the n entities of the resolved domain, in registry
\* order, for every n, also above 15; the confidence is 0.8.
C18_ExplicitDefaultsToDomain ==
    (OnExplicitPath /\ EntityNameTokens = <<>>)
    => LET ids == DomainIds(ExplicitDomain)
       IN  /\ TargetIds = SubSeq(ids, 1, IF Len(ids) < 10 THEN Len(ids) ELSE 10)
           /\ REq(cmd.v.confidence, Ratio(8, 10))

\* a call on a domain of 17 entities, a parameter but no name given, got the
\* first 10 as targets
C18_Witness ==
    /\ pc = "parsed"
    /\ OnExplicitPath
    /\ EntityNameTokens = <<>>
    /\ Len(Tokens) > 3
    /\ Len(DomainIds(ExplicitDomain)) = 17
    /\ Len(cmd.v.targets) = 10
    /\ \A i \in 1..10 : cmd.v.targets[i].entity_id = DomainIds(ExplicitDomain)[i]

\* entity-name tokens were given and find_entity matched nothing
NamesMatchNothing ==
    /\ OnExplicitPath
    /\ EntityNameTokens # <<>>
    /\ find_entity(join(EntityNameTokens, <<" ">>), cache).kind = "None"

C20_OneDomainPerCall ==
    (pc = "called" /\ call.ok)
    => \A k \in 1..Len(call.v.target.entity_id) :
            PrefixOf(call.v.target.entity_id[k]) = PrefixOf(call.v.target.entity_id[1])

\* the targets the steps other than the fallbacks put into the result
HasNote(text) == \E k \in 1..Len(cmd.v.notes) : cmd.v.notes[k].text = text

FromFallback(kind) ==
    \E k \in 1..Len(cmd.v.targets) : cmd.v.targets[k].match_type = kind

\* C21 as stated: for every input and every registry parse returns at most
\* 10 targets, whatever step produced them.
C21_AtMostTenTargets ==
    (pc # "start" /\ cmd.ok) => Len(cmd.v.targets) <= 10

\* C21 amended: the area fallback and the domain fallback each yield at most
\* 10 targets and the ambiguous-match collection at most 5; more than 10
\* targets are returned only by the per-token fallback of the main path,
\* which adds one target for each residual token that resolves alone, so
\* that the targets are then no more than the tokens of the input.
C21_CappedButPerToken ==
    (pc # "start" /\ cmd.ok)
    => /\ FromFallback("area_match") => Len(cmd.v.targets) <= 10
       /\ FromFallback("domain_match") => Len(cmd.v.targets) <= 10
       /\ HasNote("Multiple matches found") => Len(cmd.v.targets) <= 5
       /\ Len(cmd.v.targets) > 10
          => /\ OnMainPath
             /\ Len(cmd.v.targets) <= Len(Tokens)
             /\ \A k \in 1..Len(cmd.v.targets) :
                    /\ cmd.v.targets[k].matched_input \in Range(Tokens)
                    /\ find_entity(join(Tokens, <<" ">>), cache).kind = "None"

\* eleven tokens, each the object id of another lamp, gave eleven targets
C21_Witness ==
    /\ pc = "parsed"
    /\ OnMainPath
    /\ Len(Tokens) = 11
    /\ Len(cmd.v.targets) = 11
    /\ \A k \in 1..11 : cmd.v.targets[k].matched_input = Tokens[k]

\* the tokens the action scan leaves, and those of them that are neither an
\* integer nor a percentage
NonActionTokens ==
    ActionScan(Tokens, 1,
        [action |-> None, action_mapping |-> None, action_found |-> FALSE,
         skip_next |-> FALSE, non_action_tokens |-> <<>>]).non_action_tokens

NameTokens(nat) ==
    SelectSeq(nat, LAMBDA t : parse_number(t) = None /\ parse_percentage(t) = None)

NumberTokens(nat) == SelectSeq(nat, LAMBDA t : parse_number(t) # None)

PercentTokens(nat) ==
    SelectSeq(nat, LAMBDA t : parse_number(t) = None /\ parse_percentage(t) # None)

Last(s) == s[Len(s)]

\* the parameters are those of the number and percentage tokens, the last
\* token of a kind giving the value
ParametersFrom(nat) ==
    LET pct == IF is_volume_action(cmd.v.action) THEN <<"v","o","l","u","m","e","_","p","c","t">> ELSE <<"b","r","i","g","h","t","n","e","s","s","_","p","c","t">>
        nums == NumberTokens(nat)
        pcts == PercentTokens(nat)
    IN  /\ DOMAIN cmd.v.parameters =
                (IF nums # <<>> THEN {<<"v","a","l","u","e">>} ELSE {})
                \cup (IF pcts # <<>> THEN {pct} ELSE {})
        /\ nums # <<>> => cmd.v.parameters[<<"v","a","l","u","e">>] = I64(parse_number(Last(nums))[1])
        /\ pcts # <<>> => cmd.v.parameters[pct] = I64(parse_percentage(Last(pcts))[1])

\* the combined name resolves to one entity whose confidence clears the floor
CombinedResolves(nat) ==
    LET r == find_entity(join(NameTokens(nat), <<" ">>), cache)
    IN  /\ NameTokens(nat) # <<>>
        /\ r.kind = "Single"
        /\ ClearsFloor(r.matches[1])

\* C22: on the main path, when the space-joined non-action tokens that are
\* neither integers nor percentages resolve to a Single match that clears the
\* floor of its kind, parse returns that entity as its only target, the
\* parameters of the number and percentage tokens, no notes and no
\* matched_area; nothing comes from a classification or a fallback.
C22_CombinedEntityFirst ==
    OnMainPath
    => LET nat == NonActionTokens
       IN  CombinedResolves(nat)
           => LET m == find_entity(join(NameTokens(nat), <<" ">>), cache).matches[1]
              IN  /\ TargetIds = <<cache.entities[m.item].entity_id>>
                  /\ cmd.v.targets[1].matched_input = join(NameTokens(nat), <<" ">>)
                  /\ cmd.v.targets[1].match_type \notin {"area_match", "domain_match"}
                  /\ ParametersFrom(nat)
                  /\ cmd.v.notes = <<>>
                  /\ cmd.v.matched_area = None

\* "kitchen lights 50%": each name token alone is an area or a domain, the
\* two together are the kitchen light, taken with the brightness
C22_Witness ==
    /\ pc = "parsed"
    /\ OnMainPath
    /\ CombinedResolves(NonActionTokens)
    /\ Len(NameTokens(NonActionTokens)) = 2
    /\ find_area(NameTokens(NonActionTokens)[1], cache).kind = "Single"
    /\ find_domain(NameTokens(NonActionTokens)[2], cache).kind = "Single"
    /\ DOMAIN cmd.v.parameters # {}
    /\ Len(cmd.v.targets) = 1

\* the classification of the non-action tokens nat
Classified(nat) ==
    Classify(nat, is_volume_action(cmd.v.action), cache,
        [parameters |-> <<>>, domain_hint |-> None,
         area_hint |-> None, remaining_tokens |-> <<>>])

\* the residual-string step is reached with no target yet
ResidualReached(nat, cls) ==
    /\ ~CombinedResolves(nat)
    /\ AreaCombination(cls.remaining_tokens, cls.area_hint, cache) = <<>>
    /\ cls.remaining_tokens # <<>>

\* the ids of the tokens that resolve alone to a Single match above 0.7
RECURSIVE PerTokenIds(_)
PerTokenIds(tokens) ==
    IF tokens = <<>> THEN <<>>
    ELSE LET r == find_entity(tokens[1], cache)
         IN  (IF r.kind = "Single" /\ RLess(Ratio(7, 10), r.matches[1].confidence)
              THEN <<cache.entities[r.matches[1].item].entity_id>> ELSE <<>>)
             \o PerTokenIds(Tail(tokens))

\* every target, if any, was put by the area or the domain fallback
OnlyFallbackTargets ==
    \A k \in 1..Len(cmd.v.targets) :
        cmd.v.targets[k].match_type \in {"area_match", "domain_match"}

\* the targets are those of the tokens resolved one by one
PerTokenResult(cls) ==
    LET ids == PerTokenIds(cls.remaining_tokens)
    IN  IF ids # <<>> THEN TargetIds = ids ELSE OnlyFallbackTargets

\* the candidates of a Multiple match the domain hint leaves
HintLeaves(whole, cls) ==
    IF IsSome(cls.domain_hint)
    THEN SelectSeq(whole.matches,
            LAMBDA m : cache.entities[m.item].domain = cls.domain_hint[1])
    ELSE whole.matches

\* C23 as stated: when the whole residual string matches nothing, or matches
\* several entities none of which is of the hinted domain, every residual
\* token is resolved alone and exactly the Single matches above 0.7 become
\* the targets.
C23_PerTokenWhenEmpty ==
    OnMainPath
    => LET nat == NonActionTokens
           cls == Classified(nat)
           whole == find_entity(join(cls.remaining_tokens, <<" ">>), cache)
       IN  (/\ ResidualReached(nat, cls)
            /\ \/ whole.kind = "None"
               \/ whole.kind = "Multiple" /\ HintLeaves(whole, cls) = <<>>)
           => PerTokenResult(cls)

\* C23 amended: the residual tokens are resolved one by one only when the
\* whole residual string matches nothing (None); then exactly the Single
\* matches above 0.7 become the targets.  When the string matches several
\* entities and the domain hint leaves none of them, no token is resolved and
\* the step adds no target: the targets are left to the fallbacks.
C23_PerTokenOnlyOnNone ==
    OnMainPath
    => LET nat == NonActionTokens
           cls == Classified(nat)
           whole == find_entity(join(cls.remaining_tokens, <<" ">>), cache)
       IN  ResidualReached(nat, cls)
           => /\ whole.kind = "None" => PerTokenResult(cls)
              /\ (whole.kind = "Multiple" /\ HintLeaves(whole, cls) = <<>>)
                 => OnlyFallbackTargets

\* three residual tokens matching nothing together: the exact one and the one
\* a letter off became targets, the one two letters off did not
C23_Witness ==
    /\ pc = "parsed"
    /\ OnMainPath
    /\ LET cls == Classified(NonActionTokens)
       IN  /\ ResidualReached(NonActionTokens, cls)
           /\ Len(cls.remaining_tokens) = 3
           /\ find_entity(join(cls.remaining_tokens, <<" ">>), cache).kind = "None"
           /\ find_entity(cls.remaining_tokens[3], cache).kind = "Single"
           /\ Len(cmd.v.targets) = 2
           /\ TargetIds = PerTokenIds(cls.remaining_tokens)

\* C24: on the explicit call/run path every parameter token is stored under
\* the name the main path's classification gives it: an integer under
\* "value", a percentage with its sign under "brightness_pct", or under
\* "volume_pct" when the action is a volume action.
C24_SameParameterNames ==
    OnExplicitPath
    => cmd.v.parameters =
            Classified(SubSeq(Tokens, 4, Len(Tokens))).parameters

\* tenths granted for the action, the parameters and the absence of notes
FixedTenths ==
    (IF cmd.v.action # None THEN 3 ELSE 0)
    + (IF DOMAIN cmd.v.parameters # {} THEN 2 ELSE 0)
    + (IF cmd.v.notes = <<>> THEN 1 ELSE 0)

InUnitInterval(r) == RLeq(Ratio(0, 1), r) /\ RLeq(r, Ratio(1, 1))

\* C25 as stated: the confidence of a main-path result is 0.3 for an action,
\* plus 0.4 / max(1, number of targets), plus 0.2 for a parameter, plus 0.1
\* for no notes, for every number of targets including zero, and lies in
\* [0,1].
C25_ConfidenceWithMax ==
    OnMainPath
    => LET n == Len(cmd.v.targets)
           l == IF n > 1 THEN n ELSE 1
       IN  /\ REq(cmd.v.confidence, Ratio(FixedTenths * l + 4, 10 * l))
           /\ InUnitInterval(cmd.v.confidence)

\* C25 amended: the confidence of a main-path result is 0.3 for an action,
\* plus 0.4 / n when there are n >= 1 targets and nothing when there are
\* none, plus 0.2 for a parameter, plus 0.1 for no notes; it lies in [0,1].
C25_ConfidenceByTargets ==
    OnMainPath
    => LET n == Len(cmd.v.targets)
       IN  /\ n = 0 => REq(cmd.v.confidence, Ratio(FixedTenths, 10))
           /\ n > 0 => REq(cmd.v.confidence, Ratio(FixedTenths * n + 4, 10 * n))
           /\ InUnitInterval(cmd.v.confidence)

\* an action and a parameter with no target at all: 0.6, not 1.0
C25_Witness ==
    /\ pc = "parsed"
    /\ OnMainPath
    /\ cmd.v.targets = <<>>
    /\ cmd.v.action # None
    /\ DOMAIN cmd.v.parameters # {}
    /\ cmd.v.notes = <<>>
    /\ REq(cmd.v.confidence, Ratio(6, 10))

\* the table entries whose trigger words hold the lower-cased token
TriggerEntries(token) ==
    { m \in 1..Len(action_mappings) :
        to_lowercase(token) \in Range(action_mappings[m].trigger_words) }

IsTriggerWord(token) == TriggerEntries(token) # {}

\* token i is "volume" followed by "up" or "down"
IsVolumePair(ts, i) ==
    /\ to_lowercase(ts[i]) = <<"v","o","l","u","m","e">>
    /\ i < Len(ts)
    /\ to_lowercase(ts[i + 1]) \in {<<"u","p">>, <<"d","o","w","n">>}

\* the positions of the tokens that can set the action
ActionPositions(ts) ==
    { i \in 1..Len(ts) : IsTriggerWord(ts[i]) \/ IsVolumePair(ts, i) }

\* the action the token at position i stands for
ActionAt(ts, i) ==
    IF IsVolumePair(ts, i)
    THEN <<"v","o","l","u","m","e","_">> \o to_lowercase(ts[i + 1])
    ELSE action_mappings[FirstOf(TriggerEntries(ts[i]))].default_service

\* the positions the scan takes out of the token stream: the token that set
\* the action, the second word of its pair, and every "turn" in front of a
\* trigger word
TakenOut(ts) ==
    LET ps == ActionPositions(ts)
        first == IF ps = {} THEN 0 ELSE FirstOf(ps)
    IN  { i \in 1..Len(ts) :
            \/ i = first
            \/ first > 0 /\ i = first + 1 /\ IsVolumePair(ts, first)
            \/ /\ to_lowercase(ts[i]) = <<"t","u","r","n">>
               /\ i < Len(ts)
               /\ IsTriggerWord(ts[i + 1]) }

RECURSIVE Without(_, _, _)
Without(ts, out, i) ==
    IF i > Len(ts) THEN <<>>
    ELSE (IF i \in out THEN <<>> ELSE <<ts[i]>>) \o Without(ts, out, i + 1)

\* C26: on the main path the action is that of the first token, from the
\* left, that is a trigger word (letter case ignored, first table entry
\* holding it) or starts a "volume up" / "volume down" pair, and no later
\* token changes it; every later trigger word stays among the non-action
\* tokens, in its place, and is classified like any other token.
C26_FirstActionWins ==
    OnMainPath
    => LET ts == Tokens
           ps == ActionPositions(ts)
       IN  /\ ps = {} => cmd.v.action = None
           /\ ps # {} => cmd.v.action = Some(ActionAt(ts, FirstOf(ps)))
           /\ NonActionTokens = Without(ts, TakenOut(ts), 1)
           /\ \A i \in ps : (i > FirstOf(ps) + 1 /\ IsTriggerWord(ts[i]))
                    => \E k \in 1..Len(NonActionTokens) : NonActionTokens[k] = ts[i]

\* "ON off kitchen": the action is turn_on, "off" stays a non-action token in
\* front of "kitchen"
C26_Witness ==
    /\ pc = "parsed"
    /\ OnMainPath
    /\ Len(Tokens) = 3
    /\ Tokens[1] # to_lowercase(Tokens[1])
    /\ IsTriggerWord(Tokens[1])
    /\ IsTriggerWord(Tokens[2])
    /\ cmd.v.action = Some(ActionAt(Tokens, 1))
    /\ cmd.v.action # Some(ActionAt(Tokens, 2))
    /\ NonActionTokens = <<Tokens[2], Tokens[3]>>

\* positions of the Typo matches of the result
TypoPositions ==
    { k \in 1..Len(found.matches) : found.matches[k].match_type.tag = "Typo" }

\* C27: in a result of find_entity, find_area, find_service or find_domain,
\* every Typo match is 1 or 2 edits away from the name it matched, letter
\* case ignored, and reports that distance; no registry item is matched
\* twice; in a Multiple result the distance-1 matches come before the
\* distance-2 matches, the confidence never increasing.
C27_TypoTier ==
    pc \in {"found", "found_area", "found_service", "found_domain"}
    => LET ms == found.matches
           ps == TypoPositions
       IN  /\ \A k \in ps :
                /\ ms[k].match_type.distance \in {1, 2}
                /\ EditDistance(to_lowercase(input), to_lowercase(ms[k].matched_on))
                        = ms[k].match_type.distance
           /\ \A j \in ps : \A k \in ps : j < k
                => /\ ms[j].item # ms[k].item
                   /\ ms[j].match_type.distance <= ms[k].match_type.distance
                   /\ RLeq(ms[k].confidence, ms[j].confidence)

\* several typo matches of find_entity: one that is two edits away comes
\* after one that is one edit away and later in the registry
C27_Witness ==
    /\ pc = "found"
    /\ found.kind = "Multiple"
    /\ \E j, k \in 1..Len(found.matches) :
            /\ j < k
            /\ found.matches[j].match_type = Typo(1)
            /\ found.matches[k].match_type = Typo(2)
            /\ found.matches[k].item < found.matches[j].item

\* C28: in every call built from a parsed command, a brightness entry of the
\* payload is an integer in 0..255, whether it comes from brightness_pct or
\* from a value given to a light.
C28_BrightnessInRange ==
    (pc = "called" /\ call.ok /\ <<"b","r","i","g","h","t","n","e","s","s">> \in DOMAIN call.v.data)
    => /\ call.v.data[<<"b","r","i","g","h","t","n","e","s","s">>][1] = "i64"
       /\ call.v.data[<<"b","r","i","g","h","t","n","e","s","s">>][2] \in 0..255

\* C29: the targets of a parsed command name no entity twice, whatever step
\* produced them.
C29_NoTargetTwice ==
    (pc # "start" /\ cmd.ok)
    => \A j, k \in 1..Len(cmd.v.targets) :
            cmd.v.targets[j].entity_id = cmd.v.targets[k].entity_id => j = k

\* C30: whenever the domain fallback of the main path gave the targets, the
\* notes hold the advisory "No specific entity found, targeting all N
\* entities in domain '<domain>'", N being the number of targets: targets of
\* the fallback never come with empty notes.
C30_FallbackIsAnnounced ==
    (OnMainPath /\ FromFallback("domain_match"))
    => \E k \in 1..Len(cmd.v.notes) :
            cmd.v.notes[k] = Note("No specific entity found, targeting all",
                                  cmd.v.targets[1].matched_input,
                                  Len(cmd.v.targets))

====
